---- MODULE Spec2Model ----
(***************************************************************************)
(* Model of the fetch-and-merge core of nostr-kind-explorer                *)
(* (js/event-display.js: normalizePublicKey, fetchFromRelay, fetchEvents). *)
(*                                                                         *)
(* One fetchEvents invocation dispatches one fetchFromRelay session per    *)
(* relay.  Every callback the session registers (timer, 'connect',         *)
(* 'error', connect().then / .catch, 'event', 'eose') is one action; the   *)
(* relay library and the network are the environment that chooses which    *)
(* callback runs next.  The continuation of `await Promise.allSettled`     *)
(* is a microtask, so it runs at the end of the callback that settles the  *)
(* last session promise: it is part of that action.                        *)
(***************************************************************************)
EXTENDS Integers, Sequences, FiniteSets, TLC

\* ---- bounds of the model -------------------------------------------------
MaxRelays == 2
MaxIds == 2
MaxEvents == 2

Ids == 1..MaxIds
\* The event a relay delivers for an identity: relays may deliver copies of
\* one identity that differ in payload, so the copy is named after its relay.
\* The kind and the created_at of an event are part of what its id names.
EventFrom(s, id) ==
    [id |-> id, copy |-> s, kind |-> id % 2, created_at |-> id]

\* the author identities a caller can pass
PubkeyInputs == {"", "hexLower", "hexUpper", "npubValid", "npubInvalid", "other"}

VARIABLES
    fetchState,   \* "idle" | "awaiting" | "returned" | "rejected" : the promise of fetchEvents
    sessions,     \* sequence of session records, one per relay of options.relays
    stats,        \* the stats object of fetchEvents
    eventMap,     \* the eventMap object, as the sequence of its values in insertion order
    emitted,      \* the number of 'event' signals the subscriptions have emitted
    events,       \* the array fetchEvents returned (<<>> until it returns)
    firstCopy,    \* history: for each identity, the copy that was delivered first (0: none yet)
    filter,       \* the filter fetchEvents built for the sessions (NoFilter: none built)
    ui,           \* the page: what the elements of index.html show
    form,         \* the form of the page and how far handleFormSubmit has come
    currentKindGroups,   \* the global of main.js
    analysis,     \* what a direct call of analyzeEvents was given and returned
    second,       \* a second invocation of fetchEvents: its promise, sessions, stats and eventMap
    summary,      \* what a call of getEventSummary was given and returned
    filterCall    \* what a direct call of createFilter was given and returned

\* the state of main.js and of its callers
mainVars == <<form, currentKindGroups, analysis, second, summary, filterCall>>

vars == <<fetchState, sessions, stats, eventMap, emitted, events, firstCopy, filter, ui,
          form, currentKindGroups, analysis, second, summary, filterCall>>

\* an optional property of a filter: missing, or holding a number
Missing == [present |-> FALSE, nan |-> FALSE, value |-> 0]
Given(n) == [present |-> TRUE, nan |-> FALSE, value |-> n]
NaN == [present |-> TRUE, nan |-> TRUE, value |-> 0]

NoFilter == [authors |-> <<>>, since |-> Missing, until |-> Missing, kinds |-> Missing]

\* ---- promises ------------------------------------------------------------
\* resolve() / reject() of a promise: only the first call has an effect
Resolve(p) == IF p = "pending" THEN "fulfilled" ELSE p
Reject(p) == IF p = "pending" THEN "rejected" ELSE p

\* clearTimeout(timeout): cancels a timer that has not fired yet
ClearTimeout(t) == IF t = "armed" THEN "cleared" ELSE t

\* Promise.all: rejects as soon as one promise is rejected
PromiseAll(ps) ==
    IF \E i \in DOMAIN ps : ps[i] = "rejected" THEN "rejected"
    ELSE IF \A i \in DOMAIN ps : ps[i] = "fulfilled" THEN "fulfilled"
    ELSE "pending"

\* Promise.race: settles as the first promise that settles
PromiseRace(ps) ==
    IF \E i \in DOMAIN ps : ps[i] = "fulfilled" THEN "fulfilled"
    ELSE IF \E i \in DOMAIN ps : ps[i] = "rejected" THEN "rejected"
    ELSE "pending"

\* Promise.allSettled: fulfilled once no promise is pending, never rejected
AllSettled(ps) ==
    IF \A i \in DOMAIN ps : ps[i] # "pending" THEN "fulfilled" ELSE "pending"

\* ---- normalizePublicKey --------------------------------------------------
\* the result is [ok |-> TRUE, hex |-> ...] or [ok |-> FALSE, error |-> message]
\* normalizePublicKey as it would be if it only refused a missing key
normalizePublicKeyNoFormat(pubkey) ==
    IF pubkey = "" THEN [ok |-> FALSE, error |-> "Public key is required"]
    ELSE IF pubkey \in {"hexLower", "hexUpper"} THEN [ok |-> TRUE, hex |-> "hexLower"]
    ELSE IF pubkey = "npubValid" THEN [ok |-> TRUE, hex |-> "hexLower"]
    ELSE [ok |-> TRUE, hex |-> pubkey]

normalizePublicKey(pubkey) ==
    IF pubkey = "" THEN [ok |-> FALSE, error |-> "Public key is required"]
    ELSE IF pubkey \in {"hexLower", "hexUpper"} THEN [ok |-> TRUE, hex |-> "hexLower"]
    ELSE IF pubkey = "npubValid" THEN [ok |-> TRUE, hex |-> "hexLower"]
    ELSE IF pubkey = "npubInvalid" THEN [ok |-> FALSE, error |-> "Invalid npub format"]
    ELSE [ok |-> FALSE, error |-> "Invalid public key format"]

\* What a caller can pass as startDate or endDate: undefined, null, or a Date
\* holding a number of milliseconds.
NoDate(type) == [type |-> type, ms |-> 0]
DateOf(ms) == [type |-> "date", ms |-> ms]

\* What a caller can pass as kind: undefined, null, a number, or a string (a
\* sequence of the characters "0", "1" and "x"; the form passes the text of
\* its number field).
NoKind(type) == [type |-> type, number |-> 0, text |-> <<>>]
KindNumber(n) == [type |-> "number", number |-> n, text |-> <<>>]
KindText(t) == [type |-> "string", number |-> 0, text |-> t]

\* the digits at the start of a text
RECURSIVE LeadingDigits(_)
LeadingDigits(t) ==
    IF t = <<>> \/ Head(t) \notin {"0", "1"} THEN <<>>
    ELSE <<Head(t)>> \o LeadingDigits(Tail(t))

\* the number a sequence of decimal digits writes
RECURSIVE DecimalValue(_)
DecimalValue(d) ==
    IF d = <<>> THEN 0
    ELSE 10 * DecimalValue(SubSeq(d, 1, Len(d) - 1))
           + (IF d[Len(d)] = "1" THEN 1 ELSE 0)

\* parseInt(kind, 10): a number as it is, the leading digits of a text, NaN
\* when there is none
ParseInt(kind) ==
    IF kind.type = "number" THEN Given(kind.number)
    ELSE IF LeadingDigits(kind.text) = <<>> THEN NaN
    ELSE Given(DecimalValue(LeadingDigits(kind.text)))

\* the milliseconds in a second
MsPerSecond == 1000

\* Math.floor(date.getTime() / 1000)
Seconds(date) == Given(date.ms \div MsPerSecond)

\* createFilter as it would be if it tested the kind for truthiness
createFilterTruthyKind(options) ==
    [authors |-> <<options.pubkey>>,
     since |-> IF options.startDate.type = "date" THEN Seconds(options.startDate) ELSE Missing,
     until |-> IF options.endDate.type = "date" THEN Seconds(options.endDate) ELSE Missing,
     kinds |-> IF \/ options.kind.type \in {"undefined", "null"}
                  \/ options.kind.type = "string" /\ options.kind.text = <<>>
                  \/ options.kind.type = "number" /\ options.kind.number = 0
               THEN Missing
               ELSE ParseInt(options.kind)]

\* createFilter (lines 226-247)
createFilter(options) ==
    [authors |-> <<options.pubkey>>,
     since |-> IF options.startDate.type = "date" THEN Seconds(options.startDate) ELSE Missing,
     until |-> IF options.endDate.type = "date" THEN Seconds(options.endDate) ELSE Missing,
     kinds |-> IF \/ options.kind.type \in {"undefined", "null"}
                  \/ options.kind.type = "string" /\ options.kind.text = <<>>
               THEN Missing
               ELSE ParseInt(options.kind)]

\* the options of a request without dates and kind: the form with its date
\* fields and its kind field left empty (main.js lines 85-113)
Unrestricted(hexPubkey) ==
    [pubkey |-> hexPubkey, startDate |-> NoDate("null"), endDate |-> NoDate("null"),
     kind |-> KindText(<<>>)]

\* ---- the page ------------------------------------------------------------
\* resetUI (lines 137-182) applied to page u: the three sections hidden, the
\* progress and the counts back to zero, the dropdown and the container empty
resetUI(u) ==
    [u EXCEPT !.status = "none", !.results = "none", !.error = "none",
              !.progress = [num |-> 0, den |-> 1],
              !.connectedRelays = [connected |-> 0, total |-> 0],
              !.eventsFound = 0,
              !.totalEvents = 0,
              !.uniqueKinds = 0,
              !.dropdown = <<>>,
              !.container = [message |-> "", events |-> <<>>]]

\* index.html as loaded, before initApp
LoadedPage ==
    [ status          |-> "none",      \* style.display of #status-section
      results         |-> "none",      \* style.display of #results-section
      error           |-> "none",      \* style.display of #error-section
      errorMessage    |-> "",          \* text of #error-message
      progress        |-> [num |-> 0, den |-> 1],   \* #fetch-progress: value = num / den * 100
      connectedRelays |-> [connected |-> 0, total |-> 0],   \* #connected-relays
      eventsFound     |-> 0,           \* #events-found
      totalEvents     |-> 0,           \* #total-events
      uniqueKinds     |-> 0,           \* #unique-kinds
      dropdown        |-> <<>>,        \* options of #kind-dropdown after "All Kinds"
      container       |-> [message |-> "", events |-> <<>>],   \* #events-container
      selected        |-> [all |-> TRUE, kind |-> 0],   \* history: the selection displayEvents was last given
      statusUpdates   |-> 0,           \* history: calls of updateRelayStatus
      countUpdates    |-> 0 ]          \* history: calls of updateEventCount

\* updateRelayStatus(stats) (lines 400-412)
updateRelayStatus(u, st) ==
    [u EXCEPT !.connectedRelays = [connected |-> st.connectedRelays, total |-> st.totalRelays],
              !.progress = [num |-> st.connectedRelays + st.failedRelays,
                            den |-> st.totalRelays],
              !.statusUpdates = @ + 1]

\* updateEventCount(count) (lines 418-423)
updateEventCount(u, count) ==
    [u EXCEPT !.eventsFound = count, !.countUpdates = @ + 1]

\* ---- one session of fetchFromRelay ---------------------------------------
\* The state the executor of fetchFromRelay has built when it returns:
\* the timer is armed, the listeners are registered, connect() is under way.
NewSession ==
    [ hasResolved   |-> FALSE,
      timer         |-> "armed",
      promise       |-> "pending",
      conn          |-> "connecting",  \* connect(): "connecting" | "open" | "rejected" | "none"
      closed        |-> FALSE,         \* relayInstance.close() was called
      closes        |-> 0,             \* history: number of close() calls
      eose          |-> FALSE,         \* the subscription has emitted its eose
      errored       |-> FALSE,         \* the socket has emitted its 'error'
      delivered     |-> {},            \* history: messages this session's 'event' handler received
      reports       |-> <<>>,          \* history: the outcomes the session reported, in order
      failedIncs    |-> 0,             \* history: stats.failedRelays++ done by this session
      connectedIncs |-> 0,             \* history: stats.connectedRelays++ done by this session
      first         |-> "none" ]       \* history: the first settling signal of the session

\* what a handler works on: the session's closure state, the shared stats and
\* the page
Ctx(s, st, u) == [sess |-> s, stats |-> st, ui |-> u]

\* a session that counts itself failed: stats.failedRelays++; updateRelayStatus(stats)
CountFailed(p, outcome) ==
    LET q == [p EXCEPT !.sess.failedIncs = @ + 1, !.sess.reports = Append(@, outcome),
                       !.stats.failedRelays = @ + 1]
    IN [q EXCEPT !.ui = updateRelayStatus(@, q.stats)]

\* the timer callback as it would be if it only counted the relay as failed
OnTimeoutNoSettle(p) ==
    IF ~p.sess.hasResolved THEN CountFailed(p, "timeout") ELSE p

\* setTimeout callback (lines 264-270)
OnTimeout(p) ==
    IF ~p.sess.hasResolved
    THEN [CountFailed(p, "timeout") EXCEPT !.sess.promise = Reject(@)]
    ELSE p

\* the 'connect' listener as it would be if it counted without reporting
OnConnectSilent(p) ==
    [p EXCEPT !.sess.connectedIncs = @ + 1, !.stats.connectedRelays = @ + 1]

\* 'connect' listener (lines 275-278)
OnConnect(p) ==
    LET q == [p EXCEPT !.sess.connectedIncs = @ + 1, !.stats.connectedRelays = @ + 1]
    IN [q EXCEPT !.ui = updateRelayStatus(@, q.stats)]

\* the error handler as it would be if it propagated the failure
OnErrorRejecting(p) ==
    IF ~p.sess.hasResolved
    THEN [CountFailed(p, "error") EXCEPT !.sess.timer = ClearTimeout(@),
                                         !.sess.hasResolved = TRUE,
                                         !.sess.promise = Reject(@)]
    ELSE p

\* the error handler as it would be without the test of hasResolved
OnErrorUnguarded(p) ==
    [CountFailed(p, "error") EXCEPT !.sess.timer = ClearTimeout(@),
                                    !.sess.hasResolved = TRUE,
                                    !.sess.promise = Resolve(@)]

\* 'error' listener (lines 280-288); the .catch handler (lines 317-326) and the
\* catch block (lines 327-336) have the same body
OnError(p) ==
    IF ~p.sess.hasResolved
    THEN [CountFailed(p, "error") EXCEPT !.sess.timer = ClearTimeout(@),
                                         !.sess.hasResolved = TRUE,
                                         !.sess.promise = Resolve(@)]
    ELSE p

\* .catch handler of connect().then(...) (lines 317-326)
OnConnectCatch(p) == OnError(p)

\* catch block around the set-up of the relay (lines 327-336)
OnSetupThrow(p) == OnError(p)

\* the 'eose' listener as it would be if it only closed the relay and resolved
OnEoseOnlyResolves(p) ==
    IF ~p.sess.hasResolved
    THEN [p EXCEPT !.sess.closed = TRUE, !.sess.closes = @ + 1,
                   !.sess.reports = Append(@, "complete"),
                   !.sess.promise = Resolve(@)]
    ELSE p

\* the 'eose' listener as it would be if it left the relay open
OnEoseNoClose(p) ==
    IF ~p.sess.hasResolved
    THEN [p EXCEPT !.sess.timer = ClearTimeout(@), !.sess.hasResolved = TRUE,
                   !.sess.reports = Append(@, "complete"),
                   !.sess.promise = Resolve(@)]
    ELSE p

\* 'eose' listener (lines 306-316)
OnEose(p) ==
    IF ~p.sess.hasResolved
    THEN [p EXCEPT !.sess.timer = ClearTimeout(@), !.sess.hasResolved = TRUE,
                   !.sess.closed = TRUE, !.sess.closes = @ + 1,
                   !.sess.reports = Append(@, "complete"),
                   !.sess.promise = Resolve(@)]
    ELSE p

\* ---- the merge store ------------------------------------------------------
\* eventMap[id] is set
Has(map, id) == \E i \in DOMAIN map : map[i].id = id

\* what the 'event' handler works on: the shared eventMap, the shared stats
\* and the page
Store(map, st, u) == [map |-> map, stats |-> st, ui |-> u]

\* the insertion as it would be without the count
InsertUncounted(store, event) == [store EXCEPT !.map = Append(@, event)]

\* a new entry of eventMap: eventMap[event.id] = event; stats.eventCount++;
\* updateEventCount(stats.eventCount)
Insert(store, event) ==
    LET q == [store EXCEPT !.map = Append(@, event), !.stats.eventCount = @ + 1]
    IN [q EXCEPT !.ui = updateEventCount(@, q.stats.eventCount)]

\* the 'event' handler as it would be without the identity check
OnEventNoCheck(store, event) == Insert(store, event)

\* the 'event' handler as it would be if it stored the latest copy
OnEventOverwrite(store, event) ==
    IF ~Has(store.map, event.id)
    THEN Insert(store, event)
    ELSE [store EXCEPT !.map = [i \in DOMAIN store.map |->
                                   IF store.map[i].id = event.id THEN event
                                   ELSE store.map[i]]]

\* the 'event' handler as it would be if it refused an event older than the
\* last one it stored
OnEventNewerOnly(store, event) ==
    IF Has(store.map, event.id) THEN store
    ELSE IF store.map # <<>> /\ event.created_at < store.map[Len(store.map)].created_at
    THEN store
    ELSE Insert(store, event)

\* 'event' listener of the subscription (lines 296-303)
OnEvent(store, event) ==
    IF ~Has(store.map, event.id) THEN Insert(store, event) ELSE store

\* Object.values(eventMap): a new array of the stored events, in insertion order
ObjectValues(map) == map

\* ---- fetchEvents ---------------------------------------------------------
\* the promises array of fetchEvents
Promises(ss) == [i \in DOMAIN ss |-> ss[i].promise]

\* `await Promise.allSettled(promises)` and what follows it (lines 383-393):
\* the state of the promise of fetchEvents
FetchOutcome(ss) ==
    LET r == AllSettled(Promises(ss))
    IN IF r = "fulfilled" THEN "returned"
       ELSE IF r = "rejected" THEN "rejected"
       ELSE "awaiting"

\* the continuation of the await, run when a callback ends: fetchEvents returns
\* the snapshot of the store once the combinator lets it
Resume(ss, map) ==
    IF fetchState = "awaiting" /\ FetchOutcome(ss) = "returned"
    THEN /\ fetchState' = "returned"
         /\ events' = ObjectValues(map)
    ELSE IF fetchState = "awaiting" /\ FetchOutcome(ss) = "rejected"
    THEN /\ fetchState' = "rejected"
         /\ UNCHANGED events
    ELSE UNCHANGED <<fetchState, events>>

\* the initial stats object (lines 364-369)
InitStats(n) ==
    [totalRelays |-> n, connectedRelays |-> 0, failedRelays |-> 0, eventCount |-> 0]

\* the executor of fetchFromRelay for one relay (lines 258-337): either the
\* set-up succeeds, or it throws and the catch block runs
StartSession(st, u, throws) ==
    IF throws
    THEN OnSetupThrow(Ctx([NewSession EXCEPT !.conn = "none", !.first = "throw"], st, u))
    ELSE Ctx(NewSession, st, u)

\* the dispatch as it would be if each session were awaited before the next
\* one is started: relay k is reached only once the sessions before it settled
RECURSIVE DispatchAllSerial(_, _, _, _)
DispatchAllSerial(k, T, st0, u0) ==
    IF k = 0 THEN [ss |-> <<>>, stats |-> st0, ui |-> u0]
    ELSE LET prev == DispatchAllSerial(k - 1, T, st0, u0)
             p == StartSession(prev.stats, prev.ui, k \in T)
         IN IF /\ Len(prev.ss) = k - 1
               /\ \A i \in DOMAIN prev.ss : prev.ss[i].promise # "pending"
            THEN [ss |-> Append(prev.ss, p.sess), stats |-> p.stats, ui |-> p.ui]
            ELSE prev

\* options.relays.map(relay => fetchFromRelay(...)) (lines 379-381): the
\* sessions of relays 1..k, dispatched in order, and the stats and the page
\* they leave
RECURSIVE DispatchAll(_, _, _, _)
DispatchAll(k, T, st0, u0) ==
    IF k = 0 THEN [ss |-> <<>>, stats |-> st0, ui |-> u0]
    ELSE LET prev == DispatchAll(k - 1, T, st0, u0)
             p == StartSession(prev.stats, prev.ui, k \in T)
         IN [ss |-> Append(prev.ss, p.sess), stats |-> p.stats, ui |-> p.ui]

\* fetchEvents from the initial stats to the await (lines 363-384), for n relays
\* of which those in T throw while being set up, on page u
StartFetch(n, T, u) ==
    DispatchAll(n, T, InitStats(n),
                updateEventCount(updateRelayStatus(u, InitStats(n)), 0))

\* the page after initApp: resetUI has run
InitialPage == resetUI(LoadedPage)

\* the form before it is submitted
NoForm == [state |-> "none", pubkey |-> [text |-> "", padded |-> FALSE], relays |-> <<>>, parsed |-> <<>>]

\* analyzeEvents has not been called directly
NoAnalysis ==
    [called |-> FALSE, input |-> [type |-> "undefined", value |-> <<>>],
     result |-> [threw |-> FALSE, kindGroups |-> <<>>,
                 stats |-> [totalEvents |-> 0, uniqueKinds |-> 0]]]

\* createFilter has not been called directly
NoFilterCall == [called |-> FALSE, options |-> Unrestricted(""), result |-> NoFilter]

\* getEventSummary has not been called
NoSummary ==
    [called |-> FALSE, event |-> [kind |-> 0, content |-> <<>>],
     result |-> [threw |-> FALSE, source |-> "", text |-> "", kind |-> 0, preview |-> <<>>]]

\* fetchEvents has not been called a second time
NoSecond ==
    [fetchState |-> "idle", sessions |-> <<>>, stats |-> InitStats(0), eventMap |-> <<>>,
     events |-> <<>>, emitted |-> 0,
     submit |-> "none"]   \* how far the handleFormSubmit that made the call has come

Init ==
    /\ fetchState = "idle"
    /\ sessions = <<>>
    /\ stats = InitStats(0)
    /\ eventMap = <<>>
    /\ emitted = 0
    /\ events = <<>>
    /\ firstCopy = [i \in Ids |-> 0]
    /\ filter = NoFilter
    /\ ui = InitialPage
    /\ form = NoForm
    /\ currentKindGroups = <<>>
    /\ analysis = NoAnalysis
    /\ second = NoSecond
    /\ summary = NoSummary
    /\ filterCall = NoFilterCall

\* fetchEvents called, on a page whose form is not in use, with an author
\* identity normalizePublicKey refuses
FetchEventsInvalid(pubkey) ==
    /\ fetchState = "idle"
    /\ form.state = "none"
    /\ ~normalizePublicKey(pubkey).ok
    /\ fetchState' = "rejected"
    /\ UNCHANGED <<sessions, stats, eventMap, emitted, events, firstCopy, filter, ui>>
    /\ UNCHANGED mainVars

\* fetchEvents called with a valid author identity and n relays, the set-up of
\* the relays in T throwing: runs up to the await
FetchEventsStart(pubkey, n, T) ==
    /\ fetchState = "idle"
    /\ form.state = "none"
    /\ normalizePublicKey(pubkey).ok
    /\ \E d \in {StartFetch(n, T, ui)} :
          /\ sessions' = d.ss
          /\ stats' = d.stats
          /\ ui' = d.ui
          /\ eventMap' = <<>>
          /\ fetchState' = IF FetchOutcome(d.ss) = "awaiting" THEN "awaiting"
                           ELSE FetchOutcome(d.ss)
          /\ events' = IF FetchOutcome(d.ss) = "returned" THEN ObjectValues(<<>>)
                       ELSE events
    /\ filter' = createFilter(Unrestricted(normalizePublicKey(pubkey).hex))
    /\ UNCHANGED <<emitted, firstCopy>>
    /\ UNCHANGED mainVars

\* ---- the form: relays.js and handleFormSubmit ----------------------------
MaxStrLen == 3

\* A relay string is a sequence of pieces: a comma, a blank, one of the two
\* scheme prefixes, or any other text.
RelayPieces == {",", " ", "wss://", "ws://", "x"}

\* the texts the relays field can hold
RelayStrings == UNION {[1..k -> RelayPieces] : k \in 0..MaxStrLen}

\* the contents of the pubkey field: a text of PubkeyInputs, with or without
\* white space around it
PubkeyFields == [text : PubkeyInputs, padded : BOOLEAN]

\* String.prototype.trim on the pubkey field
TrimField(f) == f.text

\* DEFAULT_RELAYS (relays.js lines 5-19)
DEFAULT_RELAYS ==
    << <<"wss://", "relay.damus.io">>,
       <<"wss://", "relay.nostr.band">>,
       <<"wss://", "nos.lol">>,
       <<"wss://", "nostr.wine">>,
       <<"wss://", "relay.current.fyi">>,
       <<"wss://", "relay.snort.social">>,
       <<"wss://", "nostr.fmt.wiz.biz">>,
       <<"wss://", "relay.nostr.info">>,
       <<"wss://", "nostr.zebedee.cloud">>,
       <<"wss://", "nostr.oxtr.dev">>,
       <<"wss://", "brb.io">>,
       <<"wss://", "relay.nostr.bg">>,
       <<"wss://", "nostr.mom">> >>

\* String.prototype.trim on a relay string
RECURSIVE TrimStart(_)
TrimStart(str) ==
    IF str # <<>> /\ Head(str) = " " THEN TrimStart(Tail(str)) ELSE str

RECURSIVE TrimEnd(_)
TrimEnd(str) ==
    IF str # <<>> /\ str[Len(str)] = " " THEN TrimEnd(SubSeq(str, 1, Len(str) - 1)) ELSE str

Trim(str) == TrimEnd(TrimStart(str))

\* String.prototype.split(',')
RECURSIVE Split(_)
Split(str) ==
    IF \A i \in DOMAIN str : str[i] # "," THEN <<str>>
    ELSE LET i == CHOOSE i \in DOMAIN str :
                      str[i] = "," /\ \A j \in 1..(i - 1) : str[j] # ","
         IN <<SubSeq(str, 1, i - 1)>> \o Split(SubSeq(str, i + 1, Len(str)))

\* String.prototype.startsWith for a scheme prefix
StartsWith(str, prefix) == str # <<>> /\ Head(str) = prefix

\* .map(relay => relay.trim())
TrimAll(entries) == [i \in DOMAIN entries |-> Trim(entries[i])]

\* the filter of parseRelayList (line 34)
HasScheme(relay) == StartsWith(relay, "wss://") \/ StartsWith(relay, "ws://")

\* parseRelayList as it would be without the filter
parseRelayListNoFilter(relaysString) ==
    IF relaysString = <<>> \/ Trim(relaysString) = <<>> THEN DEFAULT_RELAYS
    ELSE TrimAll(Split(relaysString))

\* parseRelayList as it would be without the default for a blank string
parseRelayListNoDefault(relaysString) ==
    SelectSeq(TrimAll(Split(relaysString)), HasScheme)

\* parseRelayList (relays.js lines 26-35)
parseRelayList(relaysString) ==
    IF relaysString = <<>> \/ Trim(relaysString) = <<>> THEN DEFAULT_RELAYS
    ELSE SelectSeq(TrimAll(Split(relaysString)), HasScheme)

\* showLoadingStatus (event-display.js lines 95-103)
showLoadingStatus(u) ==
    [u EXCEPT !.status = "block", !.results = "none", !.error = "none"]

\* showResults as it would be if it left the status section as it is
showResultsKeepStatus(u) ==
    [u EXCEPT !.results = "block", !.error = "none"]

\* showResults (lines 108-116)
showResults(u) ==
    [u EXCEPT !.status = "none", !.results = "block", !.error = "none"]

\* showError(message) (lines 122-132)
showError(u, message) ==
    [u EXCEPT !.status = "none", !.results = "none", !.error = "block",
              !.errorMessage = message]

\* handleFormSubmit from its start to the await of fetchEvents or to the catch
\* block (main.js lines 63-112 and 128-131).  The result says where it stops:
\* fetch is the state of the promise of fetchEvents ("idle": never called).
SubmitOutcome(field, relaysStr, u) ==
    LET u0 == showLoadingStatus(resetUI(u))
        pubkey == TrimField(field)
        relays == parseRelayList(relaysStr)
        none == [ss |-> <<>>, stats |-> InitStats(0), ui |-> u0]
        norm == normalizePublicKey(pubkey)
    IN IF pubkey = ""
       THEN [state |-> "error", message |-> "Public key is required", parsed |-> <<>>,
             fetch |-> "idle", filter |-> NoFilter, d |-> none]
       ELSE IF Len(relays) = 0
       THEN [state |-> "error", message |-> "At least one valid relay is required",
             parsed |-> relays, fetch |-> "idle", filter |-> NoFilter, d |-> none]
       ELSE IF ~norm.ok
       THEN [state |-> "error", message |-> norm.error, parsed |-> relays,
             fetch |-> "rejected", filter |-> NoFilter, d |-> none]
       ELSE [state |-> "awaiting", message |-> "", parsed |-> relays,
             fetch |-> "awaiting", filter |-> createFilter(Unrestricted(norm.hex)),
             d |-> StartFetch(Len(relays), {}, u0)]

\* the form is submitted, on a page where nothing else has been called, with
\* field in the pubkey field and relaysStr in the relays field; relayInit only
\* builds the relay object for an address, so no set-up throws
HandleFormSubmit(field, relaysStr) ==
    /\ form.state = "none"
    /\ fetchState = "idle"
    /\ ~analysis.called
    /\ \E r \in {SubmitOutcome(field, relaysStr, ui)} :
          /\ form' = [state |-> r.state, pubkey |-> field, relays |-> relaysStr,
                      parsed |-> r.parsed]
          /\ fetchState' = r.fetch
          /\ filter' = r.filter
          /\ sessions' = r.d.ss
          /\ stats' = r.d.stats
          /\ ui' = IF r.state = "error" THEN showError(r.d.ui, r.message) ELSE r.d.ui
    /\ eventMap' = <<>>
    /\ UNCHANGED <<emitted, events, firstCopy, currentKindGroups, analysis, second, summary, filterCall>>

\* a page where either the form is submitted or fetchEvents is called directly
FormNext ==
    \/ \E field \in PubkeyFields, relaysStr \in RelayStrings :
          HandleFormSubmit(field, relaysStr)
    \/ \E pubkey \in PubkeyInputs : FetchEventsInvalid(pubkey)
    \/ \E pubkey \in PubkeyInputs, n \in 0..MaxRelays :
          \E T \in SUBSET (1..n) : FetchEventsStart(pubkey, n, T)

FormSpec == Init /\ [][FormNext]_vars

\* ---- event-analyzer.js and displayEvents ---------------------------------
MaxLen == 3
MaxKind == 1
MaxTs == 2

Kinds == 0..MaxKind
Stamps == 1..MaxTs

\* the arrays fetchEvents can return: the events have distinct ids (eventMap
\* has one entry per id), any kind and any created_at
EventArrays ==
    UNION {{[i \in 1..n |-> [id |-> i, kind |-> f[i][1], created_at |-> f[i][2]]] :
               f \in [1..n -> Kinds \X Stamps]} : n \in 0..MaxLen}

\* what analyzeEvents can be given besides an array of events
Undefined == [type |-> "undefined", value |-> <<>>]
NotAnArray == [type |-> "object", value |-> <<>>]
ArrayOf(evs) == [type |-> "array", value |-> evs]

\* Object.keys of an object with integer keys: ascending
RECURSIVE ObjectKeys(_)
ObjectKeys(obj) ==
    IF DOMAIN obj = {} THEN <<>>
    ELSE LET k == CHOOSE k \in DOMAIN obj : \A j \in DOMAIN obj : j <= k
         IN Append(ObjectKeys([j \in DOMAIN obj \ {k} |-> obj[j]]), k)

\* one step of the sort with (a, b) => b.created_at - a.created_at as it would
\* be if the sort were not stable
InsertBeforeTies(sorted, event) ==
    LET n == Cardinality({i \in DOMAIN sorted : sorted[i].created_at > event.created_at})
    IN SubSeq(sorted, 1, n) \o <<event>> \o SubSeq(sorted, n + 1, Len(sorted))

\* one step of the sort with (a, b) => b.created_at - a.created_at: event goes
\* behind the events that are not older (Array.prototype.sort is stable)
InsertNewestFirst(sorted, event) ==
    LET n == Cardinality({i \in DOMAIN sorted : sorted[i].created_at >= event.created_at})
    IN SubSeq(sorted, 1, n) \o <<event>> \o SubSeq(sorted, n + 1, Len(sorted))

\* array.sort((a, b) => b.created_at - a.created_at)
RECURSIVE SortNewestFirst(_)
SortNewestFirst(array) ==
    IF array = <<>> THEN <<>>
    ELSE InsertNewestFirst(SortNewestFirst(SubSeq(array, 1, Len(array) - 1)),
                           array[Len(array)])

\* the forEach step of analyzeEvents as it would be if it assigned the group
\* instead of pushing to it
AddToGroupReplacing(groups, event) ==
    [k \in DOMAIN groups \cup {event.kind} |->
        IF k = event.kind THEN <<event>> ELSE groups[k]]

\* the forEach step of analyzeEvents (lines 25-33)
AddToGroup(groups, event) ==
    IF event.kind \in DOMAIN groups
    THEN [groups EXCEPT ![event.kind] = Append(@, event)]
    ELSE [k \in DOMAIN groups \cup {event.kind} |->
             IF k = event.kind THEN <<event>> ELSE groups[k]]

\* events.forEach(...) over the first n events (lines 23-33)
RECURSIVE GroupByKind(_, _)
GroupByKind(evs, n) ==
    IF n = 0 THEN <<>> ELSE AddToGroup(GroupByKind(evs, n - 1), evs[n])

\* the result of analyzeEvents for no events (lines 13-19)
EmptyResult ==
    [threw |-> FALSE, kindGroups |-> <<>>,
     stats |-> [totalEvents |-> 0, uniqueKinds |-> 0]]

\* lines 22-49 of analyzeEvents, for the array evs
Analyzed(evs) ==
    LET grouped == GroupByKind(evs, Len(evs))
        kindGroups == [k \in DOMAIN grouped |-> SortNewestFirst(grouped[k])]
    IN [threw |-> FALSE, kindGroups |-> kindGroups,
        stats |-> [totalEvents |-> Len(evs),
                   uniqueKinds |-> Len(ObjectKeys(kindGroups))]]

\* analyzeEvents as it would be without its guard: forEach of a value that is
\* not an array is a TypeError
analyzeEventsNoGuard(input) ==
    IF input.type # "array" THEN [EmptyResult EXCEPT !.threw = TRUE]
    ELSE Analyzed(input.value)

\* analyzeEvents (event-analyzer.js lines 11-50)
analyzeEvents(input) ==
    IF input.type # "array" \/ Len(input.value) = 0 THEN EmptyResult
    ELSE Analyzed(input.value)

\* getSortedKinds as it would be with the comparator (a, b) => b - a
getSortedKindsDescending(kindGroups) ==
    LET keys == ObjectKeys(kindGroups)
    IN [i \in DOMAIN keys |-> keys[Len(keys) + 1 - i]]

\* getSortedKinds (lines 57-61)
getSortedKinds(kindGroups) == ObjectKeys(kindGroups)

\* updateStatsDisplay (lines 67-77)
updateStatsDisplay(u, st) ==
    [u EXCEPT !.totalEvents = st.totalEvents, !.uniqueKinds = st.uniqueKinds]

\* populateKindDropdown (lines 83-107): one option per kind after "All Kinds",
\* with the kind as value and the size of its group in the text
populateKindDropdown(u, kindGroups) ==
    [u EXCEPT !.dropdown = [i \in DOMAIN getSortedKinds(kindGroups) |->
                               [value |-> getSortedKinds(kindGroups)[i],
                                count |-> Len(kindGroups[getSortedKinds(kindGroups)[i]])]]]

\* what the dropdown can send: "all" or the text of a kind number
All == [all |-> TRUE, kind |-> 0]
OfKind(k) == [all |-> FALSE, kind |-> k]
Selections == {All} \cup {OfKind(k) : k \in 0..(MaxKind + 1)}

\* Object.values(kindGroups).forEach(events => allEvents.push(...events))
RECURSIVE AllEvents(_, _)
AllEvents(kindGroups, keys) ==
    IF keys = <<>> THEN <<>>
    ELSE kindGroups[Head(keys)] \o AllEvents(kindGroups, Tail(keys))

\* #events-container with a message / with one element per event
Message(text) == [message |-> text, events |-> <<>>]
Elements(evs) == [message |-> "", events |-> evs]

\* eventsToDisplay as it would be if "all" did not sort
EventsToDisplayUnsorted(kindGroups, selectedKind) ==
    IF selectedKind.all THEN AllEvents(kindGroups, ObjectKeys(kindGroups))
    ELSE IF selectedKind.kind \in DOMAIN kindGroups THEN kindGroups[selectedKind.kind]
    ELSE <<>>

\* eventsToDisplay (event-display.js lines 27-41)
EventsToDisplay(kindGroups, selectedKind) ==
    IF selectedKind.all THEN SortNewestFirst(AllEvents(kindGroups, ObjectKeys(kindGroups)))
    ELSE IF selectedKind.kind \in DOMAIN kindGroups THEN kindGroups[selectedKind.kind]
    ELSE <<>>

\* what #events-container holds after displayEvents (lines 15-55)
Container(kindGroups, selectedKind) ==
    IF DOMAIN kindGroups = {} THEN Message("No events found.")
    ELSE IF EventsToDisplay(kindGroups, selectedKind) = <<>>
    THEN Message("No events found for the selected kind.")
    ELSE Elements(EventsToDisplay(kindGroups, selectedKind))

\* displayEvents as it would be if "all" collected the events in the first
\* group instead of a new array
displayEventsInPlace(u, kindGroups, selectedKind) ==
    [ui |-> [u EXCEPT !.container = Container(kindGroups, selectedKind),
                      !.selected = selectedKind],
     kindGroups |-> IF selectedKind.all /\ DOMAIN kindGroups # {}
                    THEN [kindGroups EXCEPT ![Head(ObjectKeys(kindGroups))] =
                             EventsToDisplay(kindGroups, selectedKind)]
                    ELSE kindGroups]

\* displayEvents (event-display.js lines 11-56): the page after the call, and
\* kindGroups after it, which the function only reads ("all" sorts a new array)
displayEvents(u, kindGroups, selectedKind) ==
    [ui |-> [u EXCEPT !.container = Container(kindGroups, selectedKind),
                      !.selected = selectedKind],
     kindGroups |-> kindGroups]

\* handleFormSubmit from the value of the await to its end (main.js lines
\* 114-127), on page u with the array evs: the page and currentKindGroups
AfterFetch(u, evs) ==
    \* r is the analysis and d the page after displayEvents, each bound once
    CHOOSE x \in UNION {
        {[ui |-> showResults(d.ui), kindGroups |-> d.kindGroups] :
            d \in {displayEvents(populateKindDropdown(updateStatsDisplay(u, r.stats),
                                                     r.kindGroups),
                                 r.kindGroups, All)}} :
        r \in {analyzeEvents(ArrayOf(evs))}} : TRUE

\* the handleFormSubmit that awaits fetchEvents, when a callback ends on page u
\* with the promise of fetchEvents in state outcome and evs in the store: it
\* runs to its end with the returned array, or its catch block shows the
\* reason of the rejection (main.js lines 107-131)
ResumeSubmit(u, outcome, evs) ==
    IF form.state = "awaiting" /\ fetchState = "awaiting" /\ outcome = "returned"
    THEN \E d \in {AfterFetch(u, evs)} :
            /\ ui' = d.ui
            /\ currentKindGroups' = d.kindGroups
            /\ form' = [form EXCEPT !.state = "results"]
    ELSE IF form.state = "awaiting" /\ fetchState = "awaiting" /\ outcome = "rejected"
    THEN /\ ui' = showError(u, "Timeout connecting to relay")
         /\ form' = [form EXCEPT !.state = "error"]
         /\ UNCHANGED currentKindGroups
    ELSE /\ ui' = u
         /\ UNCHANGED <<form, currentKindGroups>>

\* the returned array as it would be if it were a live view of the store
ReturnedLive(evs, map) == map

\* the array fetchEvents returned, once the store has become map:
\* Object.values built a new array, which later insertions do not reach
Returned(evs, map) == evs

\* the listeners of session s can still be called: the relay exists and
\* close() has not dropped them
Listening(s) ==
    /\ s \in DOMAIN sessions
    /\ sessions[s].conn # "none"
    /\ ~sessions[s].closed

\* history: sig is the first settling signal of the session unless one came before
First(sess, sig) == IF sess.first = "none" THEN [sess EXCEPT !.first = sig] ELSE sess

\* a handler has run on session s and left p (r: p, computed once): when the
\* callback ends fetchEvents resumes if the combinator lets it, and with it
\* the handleFormSubmit that awaits it
Commit(s, p) ==
    /\ \E r \in {p} :
       \E ss \in {[sessions EXCEPT ![s] = r.sess]} :
          /\ sessions' = ss
          /\ stats' = r.stats
          /\ Resume(ss, eventMap)
          /\ ResumeSubmit(r.ui, FetchOutcome(ss), ObjectValues(eventMap))
    /\ UNCHANGED <<eventMap, emitted, firstCopy, filter, analysis, second, summary, filterCall>>

\* the 10 s timer of session s fires
TimerFire(s) ==
    /\ s \in DOMAIN sessions
    /\ sessions[s].timer = "armed"
    /\ Commit(s, OnTimeout(Ctx(First([sessions[s] EXCEPT !.timer = "fired"], "timeout"),
                              stats, ui)))

\* the socket of session s opens: the 'connect' listener runs, connect()
\* resolves and its .then callback subscribes and registers 'event' and 'eose'
Connect(s) ==
    /\ Listening(s)
    /\ sessions[s].conn = "connecting"
    /\ Commit(s, [OnConnect(Ctx(sessions[s], stats, ui)) EXCEPT !.sess.conn = "open"])

\* connect() of session s is rejected: the .catch handler runs
ConnectReject(s) ==
    /\ Listening(s)
    /\ sessions[s].conn = "connecting"
    /\ Commit(s, OnConnectCatch(Ctx(First([sessions[s] EXCEPT !.conn = "rejected"], "catch"),
                                    stats, ui)))

\* the socket of session s emits 'error' (a socket does so once)
ErrorSignal(s) ==
    /\ Listening(s)
    /\ ~sessions[s].errored
    /\ Commit(s, OnError(Ctx(First([sessions[s] EXCEPT !.errored = TRUE], "error"),
                             stats, ui)))

\* the subscription of session s emits 'eose' (once)
Eose(s) ==
    /\ Listening(s)
    /\ sessions[s].conn = "open"
    /\ ~sessions[s].eose
    /\ Commit(s, OnEose(Ctx(First([sessions[s] EXCEPT !.eose = TRUE], "eose"), stats, ui)))

\* the subscription of session s emits 'event' with its copy of identity id.
\* While no submission is there to analyse the events only their identities
\* matter, and these are numbered in the order of their first delivery; the
\* events of a submission arrive in any order.
Event(s, id) ==
    /\ Listening(s)
    /\ IF id = 1 \/ form.state # "none" THEN TRUE ELSE firstCopy[id - 1] # 0
    /\ sessions[s].conn = "open"
    /\ emitted < MaxEvents
    /\ emitted' = emitted + 1
    /\ \E st \in {OnEvent(Store(eventMap, stats, ui), EventFrom(s, id))} :
          /\ eventMap' = st.map
          /\ stats' = st.stats
          /\ ui' = st.ui
    /\ sessions' = [sessions EXCEPT ![s].delivered = @ \cup {EventFrom(s, id)}]
    /\ firstCopy' = IF firstCopy[id] = 0 THEN [firstCopy EXCEPT ![id] = s]
                    ELSE firstCopy
    /\ events' = IF fetchState = "returned" THEN Returned(events, eventMap') ELSE events
    /\ UNCHANGED <<fetchState, filter>>
    /\ UNCHANGED mainVars

Relays == 1..MaxRelays

Next ==
    \/ \E pubkey \in PubkeyInputs : FetchEventsInvalid(pubkey)
    \/ \E pubkey \in PubkeyInputs, n \in 0..MaxRelays :
          \E T \in SUBSET (1..n) : FetchEventsStart(pubkey, n, T)
    \/ \E s \in Relays : TimerFire(s)
    \/ \E s \in Relays : Connect(s)
    \/ \E s \in Relays : ConnectReject(s)
    \/ \E s \in Relays : ErrorSignal(s)
    \/ \E s \in Relays : Eose(s)
    \/ \E s \in Relays, id \in Ids : Event(s, id)

Spec == Init /\ [][Next]_vars

\* the timers are the only thing the code relies on to make progress
LiveSpec == Spec /\ \A s \in Relays : WF_vars(TimerFire(s))

\* fetchEvents returns the array evs to handleFormSubmit, which runs to its end
\* (main.js lines 114-127)
FetchResolved(evs) ==
    /\ form.state = "awaiting"
    /\ fetchState = "awaiting"
    /\ fetchState' = "returned"
    /\ events' = evs
    /\ \E d \in {AfterFetch(ui, evs)} :
          /\ currentKindGroups' = d.kindGroups
          /\ ui' = d.ui
    /\ form' = [form EXCEPT !.state = "results"]
    /\ UNCHANGED <<sessions, stats, eventMap, emitted, firstCopy, filter, analysis, second, summary, filterCall>>

\* the dropdown changes to selectedKind (main.js lines 138-141)
HandleKindChange(selectedKind) ==
    /\ \E d \in {displayEvents(ui, currentKindGroups, selectedKind)} :
          /\ currentKindGroups' = d.kindGroups
          /\ ui' = d.ui
    /\ UNCHANGED <<fetchState, sessions, stats, eventMap, emitted, events, firstCopy,
                   filter, form, analysis, second, summary, filterCall>>

\* analyzeEvents is called, on a page whose form is not in use, with something
\* that is not an array of events
AnalyzeEvents(input) ==
    /\ form.state = "none"
    /\ analysis' = [called |-> TRUE, input |-> input, result |-> analyzeEvents(input)]
    /\ UNCHANGED <<fetchState, sessions, stats, eventMap, emitted, events, firstCopy,
                   filter, ui, form, currentKindGroups, second, summary, filterCall>>

\* a page where either analyzeEvents is called directly, or the form is
\* submitted once with a valid pubkey and one relay and its fetch returns any
\* array; the dropdown is used at any time
AnalysisNext ==
    \/ HandleFormSubmit([text |-> "hexLower", padded |-> FALSE], <<"wss://", "x">>)
    \/ \E evs \in EventArrays : FetchResolved(evs)
    \/ \E selectedKind \in Selections : HandleKindChange(selectedKind)
    \/ \E input \in {Undefined, NotAnArray, ArrayOf(<<>>)} : AnalyzeEvents(input)

AnalysisSpec == Init /\ [][AnalysisNext]_vars

\* ---- the page: a submission and its sessions ------------------------------
\* relay fields naming one relay and two relays
PageRelayStrings ==
    { <<"wss://", "x">>, <<"wss://", "x", ",", "ws://", "x">> }

\* a page whose form is submitted once with a valid pubkey: the sessions of
\* its fetch receive their signals, and the submission runs to its end when
\* the fetch returns
PageNext ==
    \/ \E relaysStr \in PageRelayStrings :
          HandleFormSubmit([text |-> "hexLower", padded |-> FALSE], relaysStr)
    \/ \E s \in Relays : TimerFire(s)
    \/ \E s \in Relays : Connect(s)
    \/ \E s \in Relays : ConnectReject(s)
    \/ \E s \in Relays : ErrorSignal(s)
    \/ \E s \in Relays : Eose(s)
    \/ \E s \in Relays, id \in Ids : Event(s, id)

PageSpec == Init /\ [][PageNext]_vars

\* ---- getEventSummary -------------------------------------------------------
MaxContentLen == 4

\* The content of an event is a text made of JSON tokens: braces, a comma,
\* null, and members "name": "v", "name": "" and "display_name": "v".
JsonTokens == {"{", "}", ",", "null", "name:v", "name:e", "display_name:v"}
Contents == UNION {[1..k -> JsonTokens] : k \in 0..MaxContentLen}

\* the kinds a summary is asked for: metadata, text note, any other
SummaryKinds == 0..(MaxKind + 1)

\* the key and the text of a member token
IsMember(tok) == tok \in {"name:v", "name:e", "display_name:v"}
KeyOf(tok) == IF tok \in {"name:v", "name:e"} THEN "name" ELSE "display_name"
TextOf(tok) == IF tok = "name:e" THEN "" ELSE "v"

\* a property of a parsed value: undefined, or a string
Absent == [defined |-> FALSE, text |-> ""]
Str(t) == [defined |-> TRUE, text |-> t]

\* the value of property key of the object whose members are the tokens at the
\* odd places of inner: the last member with that key wins
Property(inner, key) ==
    LET at == {i \in DOMAIN inner : IsMember(inner[i]) /\ KeyOf(inner[i]) = key}
    IN IF at = {} THEN Absent
       ELSE Str(TextOf(inner[CHOOSE i \in at : \A j \in at : j <= i]))

\* the tokens between the braces are members separated by commas
IsMemberList(inner) ==
    \/ inner = <<>>
    \/ /\ Len(inner) % 2 = 1
       /\ \A i \in DOMAIN inner :
             IF i % 2 = 1 THEN IsMember(inner[i]) ELSE inner[i] = ","

\* JSON.parse(content): null, an object, or a SyntaxError
JsonParse(content) ==
    IF content = <<"null">>
    THEN [ok |-> TRUE, type |-> "null", name |-> Absent, display_name |-> Absent]
    ELSE IF /\ Len(content) >= 2
            /\ content[1] = "{"
            /\ content[Len(content)] = "}"
            /\ IsMemberList(SubSeq(content, 2, Len(content) - 1))
    THEN [ok |-> TRUE, type |-> "object",
          name |-> Property(SubSeq(content, 2, Len(content) - 1), "name"),
          display_name |-> Property(SubSeq(content, 2, Len(content) - 1), "display_name")]
    ELSE [ok |-> FALSE, type |-> "", name |-> Absent, display_name |-> Absent]

\* a property value is truthy: a string that is not empty
Truthy(prop) == prop.defined /\ prop.text # ""

\* what getEventSummary returns or raises
Returns(source, text, kind, preview) ==
    [threw |-> FALSE, source |-> source, text |-> text, kind |-> kind, preview |-> preview]
Throws == [threw |-> TRUE, source |-> "", text |-> "", kind |-> 0, preview |-> <<>>]

\* the length above which the content of a text note is cut
PreviewLength == 100

\* the body of the try block (lines 144-145): JSON.parse raises a SyntaxError,
\* reading a property of null raises a TypeError
MetadataName(content) ==
    LET metadata == JsonParse(content)
    IN IF ~metadata.ok \/ metadata.type = "null" THEN Throws
       ELSE IF Truthy(metadata.name) THEN Returns("name", metadata.name.text, 0, <<>>)
       ELSE IF Truthy(metadata.display_name)
       THEN Returns("display_name", metadata.display_name.text, 0, <<>>)
       ELSE Returns("placeholder", "Metadata", 0, <<>>)

\* getEventSummary as it would be without the try and catch
getEventSummaryNoCatch(event) ==
    IF event.kind = 1
    THEN Returns("content", "", 1,
                 IF Len(event.content) > PreviewLength
                 THEN Append(SubSeq(event.content, 1, PreviewLength), "...")
                 ELSE event.content)
    ELSE IF event.kind = 0 THEN MetadataName(event.content)
    ELSE Returns("kindName", "", event.kind, <<>>)

\* getEventSummary (event-analyzer.js lines 133-153)
getEventSummary(event) ==
    IF event.kind = 1
    THEN Returns("content", "", 1,
                 IF Len(event.content) > PreviewLength
                 THEN Append(SubSeq(event.content, 1, PreviewLength), "...")
                 ELSE event.content)
    ELSE IF event.kind = 0
    THEN IF MetadataName(event.content).threw
         THEN Returns("placeholder", "Metadata", 0, <<>>)
         ELSE MetadataName(event.content)
    ELSE Returns("kindName", "", event.kind, <<>>)

\* getEventSummary is called, on a page where nothing else has been called,
\* with an event of any kind and any content
GetEventSummary ==
    /\ ~summary.called
    /\ form.state = "none"
    /\ fetchState = "idle"
    /\ ~analysis.called
    /\ \E kind \in SummaryKinds, content \in Contents :
          summary' = [called |-> TRUE,
                      event |-> [kind |-> kind, content |-> content],
                      result |-> getEventSummary([kind |-> kind, content |-> content])]
    /\ UNCHANGED <<fetchState, sessions, stats, eventMap, emitted, events, firstCopy,
                   filter, ui, form, currentKindGroups, analysis, second, filterCall>>

SummaryNext == GetEventSummary

SummarySpec == Init /\ [][SummaryNext]_vars

\* ---- createFilter -----------------------------------------------------------
MaxHalfSeconds == 3
MaxKindLen == 2

\* the dates a caller passes: none, or a Date at a multiple of half a second
DateOptions ==
    {NoDate("undefined"), NoDate("null")} \cup {DateOf(500 * k) : k \in 0..MaxHalfSeconds}

\* the kinds a caller passes: none, a number, or the text of the kind field
KindOptions ==
    {NoKind("undefined"), NoKind("null")}
        \cup {KindNumber(n) : n \in 0..(MaxKind + 1)}
        \cup {KindText(t) : t \in UNION {[1..k -> {"0", "1", "x"}] : k \in 0..MaxKindLen}}

\* createFilter is called, on a page where nothing else has been called, with
\* the normalized author and any dates and kind
CreateFilter ==
    /\ ~filterCall.called
    /\ form.state = "none"
    /\ fetchState = "idle"
    /\ ~analysis.called
    /\ ~summary.called
    /\ \E startDate \in DateOptions, endDate \in DateOptions, kind \in KindOptions :
       \E options \in {[pubkey |-> "hexLower", startDate |-> startDate,
                         endDate |-> endDate, kind |-> kind]} :
          filterCall' = [called |-> TRUE, options |-> options,
                         result |-> createFilter(options)]
    /\ UNCHANGED <<fetchState, sessions, stats, eventMap, emitted, events, firstCopy,
                   filter, ui, form, currentKindGroups, analysis, second, summary>>

FilterNext == CreateFilter

FilterSpec == Init /\ [][FilterNext]_vars

\* ---- two invocations of fetchEvents --------------------------------------
\* the signals a session receives besides 'event'
Signals == {"timeout", "connect", "catch", "error", "eose"}

\* session sess can receive signal sig: its timer is armed, or its listeners
\* are registered and the relay is in the state that emits the signal
CanReceive(sess, sig) ==
    LET listening == sess.conn # "none" /\ ~sess.closed
    IN CASE sig = "timeout" -> sess.timer = "armed"
         [] sig = "connect" -> listening /\ sess.conn = "connecting"
         [] sig = "catch"   -> listening /\ sess.conn = "connecting"
         [] sig = "error"   -> listening /\ ~sess.errored
         [] sig = "eose"    -> listening /\ sess.conn = "open" /\ ~sess.eose

\* the handler of signal sig run on session sess with the stats st its closure
\* holds, on page u
Signalled(sig, sess, st, u) ==
    CASE sig = "timeout" ->
            OnTimeout(Ctx(First([sess EXCEPT !.timer = "fired"], "timeout"), st, u))
      [] sig = "connect" ->
            [OnConnect(Ctx(sess, st, u)) EXCEPT !.sess.conn = "open"]
      [] sig = "catch" ->
            OnConnectCatch(Ctx(First([sess EXCEPT !.conn = "rejected"], "catch"), st, u))
      [] sig = "error" ->
            OnError(Ctx(First([sess EXCEPT !.errored = TRUE], "error"), st, u))
      [] sig = "eose" ->
            OnEose(Ctx(First([sess EXCEPT !.eose = TRUE], "eose"), st, u))

\* the closure as it would be if stats and eventMap were created once, by the
\* first invocation, and shared by every later one
ClosureOfShared(f, g) == 1

\* the invocation whose stats and eventMap the handlers of a session started
\* by invocation f write, invocation g running too: fetchEvents creates both
\* objects in its body (lines 364-376) and hands them to fetchFromRelay (380)
ClosureOf(f, g) == f

\* the promise of an invocation in state state, when a callback ends with its
\* sessions being ss
Awaited(state, ss) ==
    IF state = "awaiting" /\ FetchOutcome(ss) # "awaiting" THEN FetchOutcome(ss)
    ELSE state

\* fetchEvents is called a second time, after a first call got past its
\* validation, with a valid author identity and n relays, the set-up of the
\* relays in T throwing: runs up to the await on the same page
SecondStart(n, T) ==
    /\ fetchState \in {"awaiting", "returned"}
    /\ form.state = "none"
    /\ second.fetchState = "idle"
    /\ \E d \in {StartFetch(n, T, ui)} :
          /\ second' = [fetchState |-> Awaited("awaiting", d.ss), sessions |-> d.ss,
                        stats |-> d.stats, eventMap |-> <<>>,
                        events |-> ObjectValues(<<>>), emitted |-> 0,
                        submit |-> "none"]
          /\ ui' = d.ui
    /\ UNCHANGED <<fetchState, sessions, stats, eventMap, emitted, events, firstCopy,
                   filter, form, currentKindGroups, analysis, summary, filterCall>>

\* the handleFormSubmit that awaits the second invocation, when a callback
\* ends on page u with the promise of that invocation in state outcome: the
\* page, currentKindGroups and how far that handleFormSubmit has come
\* (main.js lines 107-131)
SecondResumeSubmit(u, outcome) ==
    IF second.submit = "awaiting" /\ second.fetchState = "awaiting" /\ outcome = "returned"
    THEN [ui |-> AfterFetch(u, ObjectValues(second.eventMap)).ui,
          kindGroups |-> AfterFetch(u, ObjectValues(second.eventMap)).kindGroups,
          submit |-> "results"]
    ELSE IF second.submit = "awaiting" /\ second.fetchState = "awaiting"
            /\ outcome = "rejected"
    THEN [ui |-> showError(u, "Timeout connecting to relay"),
          kindGroups |-> currentKindGroups, submit |-> "error"]
    ELSE [ui |-> u, kindGroups |-> currentKindGroups, submit |-> second.submit]

\* the form is submitted a second time while the fetch of the first
\* submission is running: handleFormSubmit runs to its await or to its catch
\* block on the same page
SecondSubmit(field, relaysStr) ==
    /\ form.state = "awaiting"
    /\ fetchState = "awaiting"
    /\ second.fetchState = "idle"
    /\ second.submit = "none"
    /\ \E r \in {SubmitOutcome(field, relaysStr, ui)} :
          /\ second' = [fetchState |-> r.fetch, sessions |-> r.d.ss, stats |-> r.d.stats,
                        eventMap |-> <<>>, events |-> <<>>, emitted |-> 0,
                        submit |-> r.state]
          /\ ui' = IF r.state = "error" THEN showError(r.d.ui, r.message) ELSE r.d.ui
    /\ UNCHANGED <<fetchState, sessions, stats, eventMap, emitted, events, firstCopy,
                   filter, form, currentKindGroups, analysis, summary, filterCall>>

\* session s of the second invocation receives signal sig
SecondSignal(s, sig) ==
    /\ s \in DOMAIN second.sessions
    /\ CanReceive(second.sessions[s], sig)
    /\ \E f \in {ClosureOf(2, 1)} :
       \E r \in {Signalled(sig, second.sessions[s],
                           IF f = 2 THEN second.stats ELSE stats, ui)} :
       \E ss \in {[second.sessions EXCEPT ![s] = r.sess]} :
       \E d \in {SecondResumeSubmit(r.ui, Awaited(second.fetchState, ss))} :
          /\ second' = [second EXCEPT
                           !.sessions = ss,
                           !.stats = IF f = 2 THEN r.stats ELSE @,
                           !.fetchState = Awaited(@, ss),
                           !.events = IF second.fetchState = "awaiting"
                                         /\ FetchOutcome(ss) = "returned"
                                      THEN ObjectValues(second.eventMap) ELSE @,
                           !.submit = d.submit]
          /\ stats' = IF f = 2 THEN stats ELSE r.stats
          /\ ui' = d.ui
          /\ currentKindGroups' = d.kindGroups
    /\ UNCHANGED <<fetchState, sessions, eventMap, emitted, events, firstCopy, filter,
                   form, analysis, summary, filterCall>>

\* the subscription of session s of the second invocation emits 'event' with
\* its copy of identity id
SecondEvent(s, id) ==
    /\ s \in DOMAIN second.sessions
    /\ second.sessions[s].conn = "open"
    /\ ~second.sessions[s].closed
    /\ second.emitted < MaxEvents
    /\ \E f \in {ClosureOf(2, 1)} :
       \E st \in {OnEvent(Store(IF f = 2 THEN second.eventMap ELSE eventMap,
                                IF f = 2 THEN second.stats ELSE stats, ui),
                          EventFrom(s, id))} :
          /\ second' = [second EXCEPT
                           !.sessions[s].delivered = @ \cup {EventFrom(s, id)},
                           !.emitted = @ + 1,
                           !.eventMap = IF f = 2 THEN st.map ELSE @,
                           !.stats = IF f = 2 THEN st.stats ELSE @]
          /\ eventMap' = IF f = 2 THEN eventMap ELSE st.map
          /\ stats' = IF f = 2 THEN stats ELSE st.stats
          /\ ui' = st.ui
    /\ UNCHANGED <<fetchState, sessions, emitted, events, firstCopy, filter,
                   form, currentKindGroups, analysis, summary, filterCall>>

\* fetchEvents is called twice on one page, each time with a valid author
\* identity and one relay; the relay of the first call neither fails nor
\* refuses the connection
OverlapNext ==
    \/ FetchEventsStart("hexLower", 1, {})
    \/ TimerFire(1)
    \/ Connect(1)
    \/ Eose(1)
    \/ \E id \in Ids : Event(1, id)
    \/ \E T \in SUBSET {1} : SecondStart(1, T)
    \/ \E sig \in Signals : SecondSignal(1, sig)
    \/ \E id \in Ids : SecondEvent(1, id)

OverlapSpec == Init /\ [][OverlapNext]_vars

\* the form is submitted with a valid pubkey and one relay, and submitted
\* again, with a valid pubkey or one that is refused, while the first fetch is
\* running; the relays of both send any signals
SubmitNext ==
    \/ HandleFormSubmit([text |-> "hexLower", padded |-> FALSE], <<"wss://", "x">>)
    \/ TimerFire(1)
    \/ Connect(1)
    \/ ConnectReject(1)
    \/ ErrorSignal(1)
    \/ Eose(1)
    \/ \E id \in Ids : Event(1, id)
    \/ \E text \in {"hexLower", "other"} :
          SecondSubmit([text |-> text, padded |-> FALSE], <<"wss://", "x">>)
    \/ \E sig \in Signals : SecondSignal(1, sig)
    \/ \E id \in Ids : SecondEvent(1, id)

SubmitSpec == Init /\ [][SubmitNext]_vars

\* the two submissions with relays that hold one event of the author
SubmitLiveNext ==
    \/ HandleFormSubmit([text |-> "hexLower", padded |-> FALSE], <<"wss://", "x">>)
    \/ TimerFire(1)
    \/ Connect(1)
    \/ ConnectReject(1)
    \/ ErrorSignal(1)
    \/ Eose(1)
    \/ Event(1, 1)
    \/ \E text \in {"hexLower", "other"} :
          SecondSubmit([text |-> text, padded |-> FALSE], <<"wss://", "x">>)
    \/ \E sig \in Signals : SecondSignal(1, sig)
    \/ SecondEvent(1, 1)

\* setTimeout callbacks run: the 10 s timer of every session fires unless it
\* has been cleared
SubmitLiveSpec ==
    /\ Init /\ [][SubmitLiveNext]_vars
    /\ WF_vars(TimerFire(1))
    /\ WF_vars(SecondSignal(1, "timeout"))

\* ---- helpers of the properties --------------------------------------------
Sess == DOMAIN sessions
IdsOf(seq) == {seq[i].id : i \in DOMAIN seq}
MsgsOf(seq) == {seq[i] : i \in DOMAIN seq}
NoDuplicateIds(seq) == \A i, j \in DOMAIN seq : seq[i].id = seq[j].id => i = j
Delivered == UNION {sessions[s].delivered : s \in Sess}
DeliveredIds == {m.id : m \in Delivered}
Settled(s) == sessions[s].promise # "pending"
\* fetchEvents got past the validation of its input and dispatched sessions
Dispatched == filter # NoFilter /\ Len(sessions) >= 1

\* ---- C1 ------------------------------------------------------------------
\* C1: every session reports settlement at most once, whatever the order of
\* its timeout, error, connection rejection and eose signals; in particular
\* it increments failedRelays at most once.
C1_SettlesAtMostOnce ==
    \A s \in Sess : /\ Len(sessions[s].reports) <= 1
                    /\ sessions[s].failedIncs <= 1

\* ---- C2 ------------------------------------------------------------------
\* the increments of connectedRelays and failedRelays session s has made
Increments(ss, s) == ss[s].connectedIncs + ss[s].failedIncs

\* C2: a session increments exactly one of connectedRelays and failedRelays,
\* exactly once: at the step that settles a session, the session has made
\* one increment in all, whatever its path.
C2_ExactlyOneCounterOnce ==
    [][\A s \in DOMAIN sessions' :
          (/\ sessions'[s].promise # "pending"
           /\ s \in DOMAIN sessions => sessions[s].promise = "pending")
          => Increments(sessions', s) = 1]_vars

\* ---- C3 ------------------------------------------------------------------
\* C3: at the step at which fetchEvents returns for N relays,
\* connectedRelays + failedRelays = totalRelays = N.
C3_CountersSumToTotal ==
    [][(fetchState # "returned" /\ fetchState' = "returned") =>
          /\ stats'.totalRelays = Len(sessions')
          /\ stats'.connectedRelays + stats'.failedRelays = stats'.totalRelays]_vars

\* ---- C4 ------------------------------------------------------------------
\* C4: with a valid author identity and at least one relay, the promise of
\* fetchEvents is never rejected, whatever the relays do; once no session is
\* pending it has returned.
C4_FetchNeverRejected ==
    Dispatched =>
        /\ fetchState # "rejected"
        /\ (\A s \in Sess : Settled(s)) => fetchState = "returned"

\* a fetch has returned although one relay timed out (its promise was
\* rejected) and another one failed with an error
C4_Witness ==
    /\ Dispatched
    /\ fetchState = "returned"
    /\ \E s \in Sess : sessions[s].promise = "rejected"
    /\ \E s \in Sess : sessions[s].reports = <<"error">>

\* ---- C5 ------------------------------------------------------------------
\* C5: fetchEvents has returned only if every session it started has settled
\* (reported complete, timeout or error); one session failing or completing
\* does not make it return while another is pending.
C5_ReturnsAfterAllSettled ==
    fetchState = "returned" =>
        \A s \in Sess : Settled(s) /\ Len(sessions[s].reports) >= 1

\* a fetch has returned after one session completed and another one failed
C5_Witness ==
    /\ fetchState = "returned"
    /\ \E s, t \in Sess : /\ sessions[s].first = "eose"
                          /\ sessions[t].first \in {"timeout", "error", "catch"}

\* ---- C6 ------------------------------------------------------------------
\* C6: provided timers fire, every started fetch eventually returns, and a
\* session whose first settling signal is its timer has settled as a timeout.
C6_FetchEventuallyReturns ==
    /\ (fetchState = "awaiting") ~> (fetchState = "returned")
    /\ [](\A s \in Sess : sessions[s].first = "timeout" =>
              Settled(s) /\ sessions[s].reports[1] = "timeout")

\* a fetch has returned with a relay that never responded: no connect, no
\* error, no eose, only its timer
C6_Witness ==
    /\ fetchState = "returned"
    /\ \E s \in Sess : /\ sessions[s].conn = "connecting"
                       /\ ~sessions[s].errored
                       /\ sessions[s].timer = "fired"
                       /\ sessions[s].reports = <<"timeout">>

\* ---- C7 ------------------------------------------------------------------
\* C7: the sequence fetchEvents returns holds every identity at most once,
\* holds only messages some session delivered, and holds every identity that
\* a session which completed (eose was its first settling signal) delivered.
C7_ReturnsUnionOfDelivered ==
    fetchState = "returned" =>
        /\ NoDuplicateIds(events)
        /\ MsgsOf(events) \subseteq Delivered
        /\ \A s \in Sess : sessions[s].first = "eose" =>
               {m.id : m \in sessions[s].delivered} \subseteq IdsOf(events)

\* a fetch has returned the messages of a completed session although another
\* session failed; both identities are in the result
C7_Witness ==
    /\ fetchState = "returned"
    /\ \E s, t \in Sess : /\ sessions[s].first = "eose"
                          /\ sessions[s].delivered # {}
                          /\ sessions[t].first \in {"timeout", "error", "catch", "throw"}
    /\ Len(events) >= 1

\* ---- C8 ------------------------------------------------------------------
\* C8: eventMap holds exactly one entry per delivered identity: no identity
\* twice, none missing, none that was not delivered.
C8_OneEntryPerIdentity ==
    /\ NoDuplicateIds(eventMap)
    /\ IdsOf(eventMap) = DeliveredIds
    /\ stats.eventCount = Cardinality(DeliveredIds)

\* the same identity was delivered by two sessions and is stored once
C8_Witness ==
    /\ \E s, t \in Sess : /\ s # t
                          /\ \E m \in sessions[s].delivered, k \in sessions[t].delivered :
                                m.id = k.id
    /\ Len(eventMap) = 1

\* ---- C9 ------------------------------------------------------------------
\* C9: the stored copy of an identity, and the copy fetchEvents returns, is
\* the one delivered first; later deliveries of the identity do not change it.
C9_FirstCopyWins ==
    /\ \A i \in DOMAIN eventMap : eventMap[i].copy = firstCopy[eventMap[i].id]
    /\ \A i \in DOMAIN events : events[i].copy = firstCopy[events[i].id]

\* an identity was delivered in two different copies and the fetch returned it
C9_Witness ==
    /\ fetchState = "returned"
    /\ \E i \in DOMAIN events : \E m \in Delivered :
          m.id = events[i].id /\ m.copy # events[i].copy

\* ---- C10 -----------------------------------------------------------------
\* C10: a session whose first settling signal is an error ('error' signal,
\* rejection caught by .catch, or an exception thrown by the set-up) has
\* reported error and its promise is fulfilled, not rejected.
C10_ErrorResolvesSession ==
    \A s \in Sess : sessions[s].first \in {"error", "catch", "throw"} =>
        /\ sessions[s].promise = "fulfilled"
        /\ sessions[s].reports[1] = "error"

\* one session failed while being set up and another through an 'error'
\* signal or a rejected connect()
C10_Witness ==
    \E s, t \in Sess : /\ sessions[s].first = "throw"
                       /\ sessions[t].first \in {"error", "catch"}
                       /\ sessions[t].promise = "fulfilled"

\* ---- C11 -----------------------------------------------------------------
\* C11: no session outcome reaches the fan-out layer as a failure: whether a
\* session reports complete, timeout or error, its promise is never rejected.
C11_NoSessionRejected ==
    \A s \in Sess : sessions[s].promise # "rejected"

\* ---- C12 -----------------------------------------------------------------
\* C12: once a session has settled, close() has been called on its relay,
\* whether it settled through eose, through its timer or through an error.
C12_SettledIsClosed ==
    \A s \in Sess : (Settled(s) /\ sessions[s].conn # "none") => sessions[s].closed

\* ---- C13 -----------------------------------------------------------------
\* an author identity the program is meant to accept: 64 hexadecimal
\* characters or a decodable npub
ValidIdentity(pubkey) == pubkey \in {"hexLower", "hexUpper", "npubValid"}

\* a step that starts no session, counts nothing, reports no progress and
\* leaves the store and the filter as they were
NoSessionWork ==
    /\ UNCHANGED <<sessions, stats, eventMap, filter>>
    /\ ui'.statusUpdates = ui.statusUpdates
    /\ ui'.countUpdates = ui.countUpdates

\* C13: a request whose author identity is missing or invalid fails with an
\* error before any session starts: the submission ends in the error section,
\* the call of fetchEvents is rejected, and in both cases no session is
\* created, no counter or progress report is touched and no store or filter
\* is built; a fetch that does start has a valid author in its filter.
C13_InvalidIdentityFailsFirst ==
    [][ /\ (form.state = "none" /\ form'.state # "none"
              /\ ~ValidIdentity(TrimField(form'.pubkey)))
           => (form'.state = "error" /\ ui'.error = "block" /\ sessions' = <<>>
                 /\ NoSessionWork)
        /\ (fetchState = "idle" /\ fetchState' = "rejected") => NoSessionWork
        /\ (fetchState = "idle" /\ fetchState' \in {"awaiting", "returned"})
           => filter'.authors = <<"hexLower">> ]_vars

\* an identity that is present but invalid was submitted with a usable relay
\* list: fetchEvents was called and refused it
C13_Witness ==
    /\ form.state = "error"
    /\ TrimField(form.pubkey) \in {"npubInvalid", "other"}
    /\ form.parsed # <<>>
    /\ fetchState = "rejected"
    /\ sessions = <<>>
    /\ ui.statusUpdates = 0

EntryStarts(str) == {1} \cup {i + 1 : i \in {j \in DOMAIN str : str[j] = ","}}

\* the last position of the entry that begins at p (p - 1 for an empty entry)
EntryEnd(str, p) ==
    LET commas == {i \in p..Len(str) : str[i] = ","}
    IN IF commas = {} THEN Len(str)
       ELSE (CHOOSE i \in commas : \A j \in commas : i <= j) - 1

\* the positions of the entry at p that are not blanks
Ink(str, p) == {i \in p..EntryEnd(str, p) : str[i] # " "}

\* the entry at p begins, after its leading blanks, with ws:// or wss://
ValidEntry(str, p) ==
    \E i \in Ink(str, p) : /\ \A j \in Ink(str, p) : i <= j
                           /\ str[i] \in {"wss://", "ws://"}

\* the entry at p without the blanks around it
EntryText(str, p) ==
    LET ink == Ink(str, p)
    IN SubSeq(str, CHOOSE i \in ink : \A j \in ink : i <= j,
                   CHOOSE i \in ink : \A j \in ink : j <= i)

\* the valid entries of str, trimmed, in the order they have in str
KeptEntries(str) ==
    LET starts == {p \in EntryStarts(str) : ValidEntry(str, p)}
    IN [k \in 1..Cardinality(starts) |->
           EntryText(str, CHOOSE p \in starts :
                              Cardinality({q \in starts : q < p}) = k - 1)]

\* the relay string is empty or holds blanks only
Blank(str) == \A i \in DOMAIN str : str[i] = " "

\* a submission with a pubkey has come to parseRelayList
Parsed == form.state # "none" /\ TrimField(form.pubkey) # ""

\* when a valid address remains no error is raised for the relay list and one
\* session is started per kept address
SessionsForKept ==
    (Parsed /\ form.parsed # <<>> /\ ValidIdentity(TrimField(form.pubkey)))
        => /\ form.state = "awaiting"
           /\ Len(sessions) = Len(form.parsed)
           /\ stats.totalRelays = Len(form.parsed)

\* C15 as stated: parseRelayList keeps exactly the comma-separated entries
\* that begin, after trimming, with ws:// or wss://, in their order, and drops
\* the others; when one remains no error is raised and the sessions are those
\* of the kept addresses.
C15_KeepsExactlyValidEntries ==
    /\ Parsed => form.parsed = KeptEntries(form.relays)
    /\ SessionsForKept

\* C15 amended: for a relay string that is not blank, parseRelayList keeps
\* exactly the comma-separated entries that begin, after trimming, with ws://
\* or wss://, in their order, and drops the others; when at least one address
\* remains no error is raised and one session is started per kept address.
C15_KeepsValidEntriesOfNonBlank ==
    /\ (Parsed /\ ~Blank(form.relays)) => form.parsed = KeptEntries(form.relays)
    /\ SessionsForKept

\* a list with one valid entry between two dropped ones was submitted and one
\* session was started
C15_Witness ==
    /\ form.state = "awaiting"
    /\ Len(Split(form.relays)) = 3
    /\ Len(form.parsed) = 1
    /\ Len(sessions) = 1

\* ---- C16 -----------------------------------------------------------------
\* the places (kind, index) of the groups that hold event e
PlacesOf(groups, e) ==
    {p \in UNION {{<<k, j>> : j \in DOMAIN groups[k]} : k \in DOMAIN groups} :
        groups[p[1]][p[2]] = e}

\* the number of entries of all groups
RECURSIVE Entries(_)
Entries(groups) ==
    IF DOMAIN groups = {} THEN 0
    ELSE LET k == CHOOSE k \in DOMAIN groups : TRUE
         IN Len(groups[k]) + Entries([j \in DOMAIN groups \ {k} |-> groups[j]])

\* C16: analyzeEvents places every event of its input in exactly one group,
\* the one keyed by the event's kind, the groups hold nothing else and none is
\* empty; totalEvents is the number of input events and uniqueKinds the number
\* of distinct kinds among them.
C16_EveryEventInItsKindGroup ==
    form.state = "results" =>
        /\ \A i \in DOMAIN events :
              /\ events[i].kind \in DOMAIN currentKindGroups
              /\ Cardinality(PlacesOf(currentKindGroups, events[i])) = 1
              /\ \A p \in PlacesOf(currentKindGroups, events[i]) : p[1] = events[i].kind
        /\ Entries(currentKindGroups) = Len(events)
        /\ \A k \in DOMAIN currentKindGroups : currentKindGroups[k] # <<>>
        /\ ui.totalEvents = Len(events)
        /\ ui.uniqueKinds = Cardinality({events[i].kind : i \in DOMAIN events})

\* three events of two kinds were analysed: one group of two and one of one
C16_Witness ==
    /\ form.state = "results"
    /\ Len(events) = 3
    /\ ui.uniqueKinds = 2
    /\ \E k \in DOMAIN currentKindGroups : Len(currentKindGroups[k]) = 2

\* ---- C17 -----------------------------------------------------------------
\* C17: every group is ordered by created_at descending, and events of one
\* group with equal created_at keep the order they had in the input (the id of
\* an event is its position in the input).
C17_GroupsNewestFirstStable ==
    form.state = "results" =>
        \A k \in DOMAIN currentKindGroups :
            \A i, j \in DOMAIN currentKindGroups[k] :
                i < j =>
                    /\ currentKindGroups[k][i].created_at >= currentKindGroups[k][j].created_at
                    /\ currentKindGroups[k][i].created_at = currentKindGroups[k][j].created_at
                       => currentKindGroups[k][i].id < currentKindGroups[k][j].id

\* a group of three whose oldest event came first in the input and whose two
\* newer events tie: the sort moved the oldest to the end and kept the tie
C17_Witness ==
    /\ form.state = "results"
    /\ \E k \in DOMAIN currentKindGroups :
          /\ Len(currentKindGroups[k]) = 3
          /\ currentKindGroups[k][1].id = 2
          /\ currentKindGroups[k][2].id = 3
          /\ currentKindGroups[k][3].id = 1
          /\ currentKindGroups[k][1].created_at = currentKindGroups[k][2].created_at

\* ---- C18 -----------------------------------------------------------------
\* C18: analyzeEvents returns no groups and the statistics {totalEvents: 0,
\* uniqueKinds: 0}, and does not throw, for an empty array, for no argument
\* and for an argument that is not an array; so does a submission whose fetch
\* returns no event.
C18_EmptyInputEmptyResult ==
    /\ (analysis.called /\ (analysis.input.type # "array" \/ analysis.input.value = <<>>))
       => /\ ~analysis.result.threw
          /\ DOMAIN analysis.result.kindGroups = {}
          /\ analysis.result.stats = [totalEvents |-> 0, uniqueKinds |-> 0]
    /\ (form.state = "results" /\ events = <<>>)
       => /\ DOMAIN currentKindGroups = {}
          /\ ui.totalEvents = 0
          /\ ui.uniqueKinds = 0

\* analyzeEvents was called without an argument
C18_Witness ==
    /\ analysis.called
    /\ analysis.input.type = "undefined"
    /\ ~analysis.result.threw

\* ---- C19 -----------------------------------------------------------------
\* the events of all groups
Stored(groups) == UNION {{groups[k][j] : j \in DOMAIN groups[k]} : k \in DOMAIN groups}

\* C19: what displayEvents shows: for one kind, the events of that kind's
\* group in the group's order, nothing for a kind without a group; for "all",
\* every event of every group exactly once, ordered by created_at descending.
C19_ShowsSelection ==
    LET shown == ui.container.events
    IN IF ui.selected.all
       THEN /\ {shown[i] : i \in DOMAIN shown} = Stored(currentKindGroups)
            /\ Len(shown) = Cardinality(Stored(currentKindGroups))
            /\ \A i, j \in DOMAIN shown :
                  i < j => shown[i].created_at >= shown[j].created_at
       ELSE IF ui.selected.kind \in DOMAIN currentKindGroups
       THEN shown = currentKindGroups[ui.selected.kind]
       ELSE shown = <<>>

\* "all" is shown for two groups whose events interleave in time
C19_Witness ==
    /\ form.state = "results"
    /\ ui.selected.all
    /\ Len(ui.container.events) = 3
    /\ ui.container.events[1].kind # ui.container.events[2].kind
    /\ ui.container.events[1].kind = ui.container.events[3].kind
    /\ ui.container.events[1].created_at > ui.container.events[3].created_at

\* ---- C20 -----------------------------------------------------------------
\* C20: a change of the selection, "all" included, leaves the stored kind
\* groups as they are: currentKindGroups changes only when a fetch returns.
C20_SelectionKeepsGroups ==
    [][fetchState' = fetchState => currentKindGroups' = currentKindGroups]_vars

\* a single kind is shown after "all" had been shown for two groups
C20_Witness ==
    /\ form.state = "results"
    /\ ~ui.selected.all
    /\ ui.container.events # <<>>
    /\ Cardinality(DOMAIN currentKindGroups) = 2

\* ---- C21 -----------------------------------------------------------------
\* C21: sessions do not serialize. Once fetchEvents is past its validation a
\* session exists for every address (its timer armed before fetchEvents waits
\* on any of them), and what a session can do next never depends on another
\* session: an armed timer can fire, a connecting socket can open or be
\* refused, an open subscription can end, whatever the other sessions are
\* doing, so a slow or silent endpoint delays neither the start nor the
\* settlement of another session.
C21_SessionsDoNotSerialize ==
    filter # NoFilter =>
        /\ Len(sessions) = stats.totalRelays
        /\ \A s \in Sess :
              /\ sessions[s].first = "none" => sessions[s].timer = "armed"
              /\ sessions[s].timer = "armed" => ENABLED TimerFire(s)
              /\ (Listening(s) /\ sessions[s].conn = "connecting")
                    => (ENABLED Connect(s) /\ ENABLED ConnectReject(s))
              /\ (Listening(s) /\ sessions[s].conn = "open" /\ ~sessions[s].eose)
                    => ENABLED Eose(s)

\* a later session has completed through eose while an earlier one, whose
\* endpoint is silent, is still pending with its timer armed
C21_Witness ==
    \E s, t \in Sess : /\ t < s
                       /\ sessions[s].first = "eose"
                       /\ sessions[s].promise = "fulfilled"
                       /\ sessions[t].promise = "pending"
                       /\ sessions[t].conn = "connecting"
                       /\ sessions[t].timer = "armed"

\* ---- C22 -----------------------------------------------------------------
\* C22: a session delivers messages to the merge store only before its
\* settlement: once it has settled (complete, timeout or error), a message
\* arriving from it changes neither the merge store nor the count of
\* messages seen.
C22_NoDeliveryAfterSettlement ==
    [][\A s \in Sess :
          (/\ Settled(s)
           /\ s \in DOMAIN sessions'
           /\ sessions'[s].delivered # sessions[s].delivered)
          => (eventMap' = eventMap /\ stats'.eventCount = stats.eventCount)]_vars

\* ---- C23 -----------------------------------------------------------------
\* what the page shows of the analysis: its statistics and its dropdown
Shown(u) == [totalEvents |-> u.totalEvents, uniqueKinds |-> u.uniqueKinds,
             dropdown |-> u.dropdown]

\* C23: the returned sequence is a snapshot. Once fetchEvents has returned,
\* no step (in particular no message a still-open session delivers) changes
\* the returned sequence, the kind groups computed from it or the statistics
\* shown for it; and these are the analysis of the returned sequence.
C23_ReturnedIsSnapshot ==
    /\ [][fetchState = "returned" =>
             /\ events' = events
             /\ currentKindGroups' = currentKindGroups
             /\ Shown(ui') = Shown(ui)]_vars
    /\ [](form.state = "results" =>
             /\ currentKindGroups = analyzeEvents(ArrayOf(events)).kindGroups
             /\ ui.totalEvents = Len(events)
             /\ ui.uniqueKinds = Cardinality(DOMAIN currentKindGroups))

\* after the fetch returned an event, a session that had timed out delivered
\* another one: the store holds more than the returned sequence
C23_Witness ==
    /\ form.state = "results"
    /\ Len(events) >= 1
    /\ Len(eventMap) > Len(events)
    /\ ui.totalEvents = Len(events)
    /\ ui.eventsFound = Len(eventMap)

\* ---- C24 -----------------------------------------------------------------
\* a step taken by a session of the first invocation / of the second one
FirstSessionStep ==
    fetchState # "idle" /\ (sessions' # sessions \/ emitted' # emitted)
SecondSessionStep ==
    second.fetchState # "idle"
        /\ (second'.sessions # second.sessions \/ second'.emitted # second.emitted)

\* C24: each invocation of fetchEvents owns its merge store and its counters.
\* When two fetches overlap, a step of a session of one invocation leaves the
\* other invocation's store and its connected, failed and event counters as
\* they were.
C24_InvocationsOwnTheirState ==
    [][/\ FirstSessionStep =>
            (second'.eventMap = second.eventMap /\ second'.stats = second.stats)
       /\ SecondSessionStep =>
            (eventMap' = eventMap /\ stats' = stats)]_vars

\* both invocations are under way, each has stored a copy of the same
\* identity, and each has counted its own relay
C24_Witness ==
    /\ fetchState = "awaiting"
    /\ second.fetchState = "awaiting"
    /\ Len(eventMap) = 1
    /\ Len(second.eventMap) = 1
    /\ eventMap[1].id = second.eventMap[1].id
    /\ stats.connectedRelays = 1
    /\ second.stats.connectedRelays = 1
    /\ stats.eventCount = 1
    /\ second.stats.eventCount = 1

\* ---- C25 -----------------------------------------------------------------
\* C25: the liveness counts are reported incrementally. From the moment
\* fetchEvents is past its validation the page shows the current values of
\* connectedRelays, failedRelays and totalRelays, and updateRelayStatus has
\* been called once at the start (zero counts and the total) and once more
\* for every increment of either counter.
C25_CountsReportedIncrementally ==
    /\ filter # NoFilter =>
          /\ ui.connectedRelays = [connected |-> stats.connectedRelays,
                                   total |-> stats.totalRelays]
          /\ ui.progress = [num |-> stats.connectedRelays + stats.failedRelays,
                            den |-> stats.totalRelays]
          /\ ui.statusUpdates = 1 + stats.connectedRelays + stats.failedRelays
    /\ (filter # NoFilter /\ \A s \in Sess : Increments(sessions, s) = 0) =>
          /\ ui.statusUpdates = 1
          /\ ui.connectedRelays = [connected |-> 0, total |-> Len(sessions)]

\* one relay has connected and another has failed: three reports were made
\* and the page shows one connected relay of two and full progress
C25_Witness ==
    /\ fetchState = "awaiting"
    /\ stats.connectedRelays = 1
    /\ stats.failedRelays = 1
    /\ ui.statusUpdates = 3
    /\ ui.connectedRelays = [connected |-> 1, total |-> 2]
    /\ ui.progress = [num |-> 2, den |-> 2]

\* ---- C26 -----------------------------------------------------------------
\* C26: a blank relay field (empty or white space only) makes parseRelayList
\* return the default relay list, so the submission does not fail with the
\* empty-list error: with a valid author identity the fetch runs against the
\* default relays.
C26_BlankRelaysUseDefaults ==
    (Parsed /\ Blank(form.relays)) =>
        /\ form.parsed = DEFAULT_RELAYS
        /\ ui.errorMessage # "At least one valid relay is required"
        /\ ValidIdentity(TrimField(form.pubkey)) =>
              /\ form.state = "awaiting"
              /\ ui.error = "none"
              /\ Len(sessions) = Len(DEFAULT_RELAYS)
              /\ ui.connectedRelays = [connected |-> 0, total |-> Len(DEFAULT_RELAYS)]

\* a relay field of two blanks was submitted with a valid pubkey and a
\* session is pending for each default relay
C26_Witness ==
    /\ form.state = "awaiting"
    /\ form.relays = <<" ", " ">>
    /\ Len(sessions) = Len(DEFAULT_RELAYS)
    /\ \A s \in Sess : sessions[s].promise = "pending"

\* ---- C27 -----------------------------------------------------------------
\* the sum of the counts of the first n options
RECURSIVE SumOfCounts(_, _)
SumOfCounts(options, n) ==
    IF n = 0 THEN 0 ELSE options[n].count + SumOfCounts(options, n - 1)

\* C27: once the results are shown, the kind dropdown lists every kind
\* present among the returned events exactly once, in ascending numeric
\* order, each with a count equal to the number of returned events of that
\* kind (the size of its group), so that the counts sum to the total shown.
C27_DropdownListsKinds ==
    form.state = "results" =>
        /\ {ui.dropdown[i].value : i \in DOMAIN ui.dropdown}
              = {events[j].kind : j \in DOMAIN events}
        /\ \A i, j \in DOMAIN ui.dropdown :
              i < j => ui.dropdown[i].value < ui.dropdown[j].value
        /\ \A i \in DOMAIN ui.dropdown :
              /\ ui.dropdown[i].count = Len(currentKindGroups[ui.dropdown[i].value])
              /\ ui.dropdown[i].count =
                    Cardinality({j \in DOMAIN events : events[j].kind = ui.dropdown[i].value})
        /\ SumOfCounts(ui.dropdown, Len(ui.dropdown)) = ui.totalEvents
        /\ ui.totalEvents = Len(events)

\* three events of two kinds were returned: the dropdown lists the two kinds,
\* the lower first, with counts one and two
C27_Witness ==
    /\ form.state = "results"
    /\ Len(events) = 3
    /\ Len(ui.dropdown) = 2
    /\ ui.dropdown[1].count = 1
    /\ ui.dropdown[2].count = 2
    /\ ui.dropdown[1].value < ui.dropdown[2].value

\* ---- C28 -----------------------------------------------------------------
\* the content parses to a value whose name property is missing or empty
WithoutName(content) ==
    JsonParse(content).ok /\ ~Truthy(JsonParse(content).name)

\* C28 as stated: getEventSummary never raises because of an unparseable
\* payload; for a kind 0 event whose content is not valid JSON, or parses to a
\* value without a name, it returns the placeholder 'Metadata'.
C28_PlaceholderWithoutName ==
    summary.called =>
        /\ ~summary.result.threw
        /\ (/\ summary.event.kind = 0
            /\ (~JsonParse(summary.event.content).ok \/ WithoutName(summary.event.content)))
           => summary.result.text = "Metadata"

\* C28 amended: getEventSummary never raises because of an unparseable
\* payload; for a kind 0 event whose content is not valid JSON, or parses to a
\* value with neither a non-empty name nor a non-empty display_name, it
\* returns the placeholder 'Metadata'; a value without a name but with a
\* display_name yields the display_name.
C28_PlaceholderWithoutAnyName ==
    summary.called =>
        /\ ~summary.result.threw
        /\ (/\ summary.event.kind = 0
            /\ \/ ~JsonParse(summary.event.content).ok
               \/ /\ WithoutName(summary.event.content)
                  /\ ~Truthy(JsonParse(summary.event.content).display_name))
           => summary.result.text = "Metadata"
        /\ (/\ summary.event.kind = 0
            /\ WithoutName(summary.event.content)
            /\ Truthy(JsonParse(summary.event.content).display_name))
           => summary.result.text = JsonParse(summary.event.content).display_name.text

\* the summary of a kind 0 event whose content is an unclosed brace, which
\* JSON.parse refuses, is the placeholder
C28_Witness ==
    /\ summary.called
    /\ summary.event = [kind |-> 0, content |-> <<"{", "name:v">>]
    /\ ~summary.result.threw
    /\ summary.result.text = "Metadata"

\* ---- C29 -----------------------------------------------------------------
\* C29: a session that settled through eose is never afterwards counted as
\* failed: its timer is cancelled, it has made and makes no increment of
\* failedRelays, and an 'error' signal or a rejection of connect() reaching
\* its handlers would leave failedRelays as it is.
C29_EoseNeverCountedFailed ==
    \A s \in Sess :
        sessions[s].first = "eose" =>
            /\ sessions[s].timer = "cleared"
            /\ sessions[s].failedIncs = 0
            /\ sessions[s].reports = <<"complete">>
            /\ ~ENABLED TimerFire(s)
            /\ OnError(Ctx(sessions[s], stats, ui)).stats.failedRelays = stats.failedRelays
            /\ OnConnectCatch(Ctx(sessions[s], stats, ui)).stats.failedRelays
                  = stats.failedRelays

\* the fetch has returned with one session that settled through eose and
\* another one that failed: one failure is counted, none of it by the first
C29_Witness ==
    /\ fetchState = "returned"
    /\ stats.failedRelays = 1
    /\ \E s, t \in Sess : /\ sessions[s].first = "eose"
                          /\ sessions[s].failedIncs = 0
                          /\ sessions[t].failedIncs = 1

\* ---- C30 -----------------------------------------------------------------
\* C30: when one connection failure gives a session both an 'error' signal
\* and a rejection of connect(), in either order and before its timer fired,
\* the session increments failedRelays once and its timer is cancelled, so
\* the timeout handler never runs for it.
C30_DoubleFailureCountedOnce ==
    \A s \in Sess :
        (/\ sessions[s].errored
         /\ sessions[s].conn = "rejected"
         /\ sessions[s].first \in {"error", "catch"})
        => /\ sessions[s].failedIncs = 1
           /\ sessions[s].reports = <<"error">>
           /\ sessions[s].timer = "cleared"
           /\ ~ENABLED TimerFire(s)

\* one session got the 'error' signal and then the rejection, another one the
\* rejection and then the 'error' signal; two failures are counted
C30_Witness ==
    /\ stats.failedRelays = 2
    /\ \E s, t \in Sess : /\ sessions[s].first = "error"
                          /\ sessions[s].conn = "rejected"
                          /\ sessions[t].first = "catch"
                          /\ sessions[t].errored

\* ---- C31 -----------------------------------------------------------------
\* C31: when eose is the first settling signal of a session, the relay is
\* closed and the session settles as complete; and over any sequence of
\* signals close() is called at most once per session: once it was called,
\* the eose handler would not call it again.
C31_EoseClosesOnce ==
    \A s \in Sess :
        /\ sessions[s].first = "eose" =>
              /\ sessions[s].closed
              /\ sessions[s].closes = 1
              /\ sessions[s].promise = "fulfilled"
              /\ sessions[s].reports = <<"complete">>
        /\ sessions[s].closes <= 1
        /\ sessions[s].closed =>
              OnEose(Ctx(sessions[s], stats, ui)).sess.closes = sessions[s].closes

\* one session completed through eose as its first signal, and another one
\* received eose after its timer had fired: each relay was closed once
C31_Witness ==
    \E s, t \in Sess : /\ sessions[s].first = "eose"
                       /\ sessions[s].closes = 1
                       /\ sessions[t].first = "timeout"
                       /\ sessions[t].eose
                       /\ sessions[t].closes = 1

\* ---- C32 -----------------------------------------------------------------
\* a kind is given: a number (0 included) or a text that is not empty
KindIsGiven(kind) ==
    \/ kind.type = "number"
    \/ kind.type = "string" /\ kind.text # <<>>

\* C32: createFilter always restricts to the single normalized author, adds
\* the start bound iff a start date is given, the end bound iff an end date
\* is given, and a restriction to a single kind iff a kind is given; kind 0
\* counts as given and yields a restriction to kind 0, while an empty, null
\* or undefined kind yields no restriction.
C32_FilterFollowsOptions ==
    filterCall.called =>
        LET o == filterCall.options
            f == filterCall.result
        IN /\ f.authors = <<o.pubkey>>
           /\ f.since.present <=> o.startDate.type = "date"
           /\ f.until.present <=> o.endDate.type = "date"
           /\ f.kinds.present <=> KindIsGiven(o.kind)
           /\ o.startDate.type = "date" =>
                 /\ 1000 * f.since.value <= o.startDate.ms
                 /\ o.startDate.ms < 1000 * (f.since.value + 1)
           /\ o.endDate.type = "date" =>
                 /\ 1000 * f.until.value <= o.endDate.ms
                 /\ o.endDate.ms < 1000 * (f.until.value + 1)
           /\ o.kind.type = "number" => f.kinds = Given(o.kind.number)
           /\ o.kind = KindText(<<"0">>) => f.kinds = Given(0)

\* createFilter was given the number 0 as kind, a start date and no end
\* date: the filter restricts to kind 0 and has a start bound only
C32_Witness ==
    /\ filterCall.called
    /\ filterCall.options.kind = KindNumber(0)
    /\ filterCall.options.startDate = DateOf(1500)
    /\ filterCall.options.endDate = NoDate("null")
    /\ filterCall.result.kinds = Given(0)
    /\ filterCall.result.since = Given(1)
    /\ ~filterCall.result.until.present

\* ---- C33 -----------------------------------------------------------------
\* C33: in every reachable state of a fetch the count of messages seen
\* (stats.eventCount), which is the count the page reports once the fetch has
\* started, equals the number of distinct identities in the merge store; and
\* it never decreases.
C33_CountIsDistinctIdentities ==
    /\ [](/\ stats.eventCount = Cardinality(IdsOf(eventMap))
          /\ filter # NoFilter => ui.eventsFound = stats.eventCount)
    /\ [][stats'.eventCount >= stats.eventCount]_vars

\* two copies of one identity were delivered: one message is counted
C33_Witness ==
    /\ emitted = 2
    /\ stats.eventCount = 1
    /\ ui.eventsFound = 1
    /\ ui.countUpdates = 2

\* ---- C34 -----------------------------------------------------------------
\* C34: the progress value updateRelayStatus computes,
\* (connectedRelays + failedRelays) / totalRelays * 100, stays within 0..100
\* in every reachable state: connectedRelays + failedRelays never exceeds
\* totalRelays at any point of a fetch.
C34_ProgressWithinBounds ==
    /\ stats.connectedRelays + stats.failedRelays <= stats.totalRelays
    /\ ui.progress.num >= 0
    /\ ui.progress.num <= ui.progress.den

\* ---- C35 -----------------------------------------------------------------
\* the messages the sessions ss have delivered, and their identities by kind
DeliveredIn(ss) == UNION {ss[s].delivered : s \in DOMAIN ss}
IdsOfKind(msgs, k) == {m.id : m \in {n \in msgs : n.kind = k}}

\* C35: the set of identities fetchEvents returns, and the kind groups derived
\* from it, are a function of the set of messages delivered before the fetch
\* returned, whatever the order in which the deliveries of the sessions
\* interleaved: at the step that returns, the returned identities are those
\* delivered, every kind delivered has a group holding exactly the identities
\* delivered with that kind, and, the timestamps being pairwise distinct, the
\* page shows the identities in the one order of strictly descending
\* timestamps.
C35_ResultIndependentOfOrder ==
    [][(fetchState = "awaiting" /\ fetchState' = "returned" /\ form'.state = "results") =>
          LET msgs == DeliveredIn(sessions')
              shown == ui'.container.events
          IN /\ IdsOf(events') = {m.id : m \in msgs}
             /\ DOMAIN currentKindGroups' = {m.kind : m \in msgs}
             /\ \A k \in DOMAIN currentKindGroups' :
                   /\ IdsOf(currentKindGroups'[k]) = IdsOfKind(msgs, k)
                   /\ Len(currentKindGroups'[k]) = Cardinality(IdsOfKind(msgs, k))
             /\ IdsOf(shown) = {m.id : m \in msgs}
             /\ (\A m, n \in msgs : m.id # n.id => m.created_at # n.created_at)
                   => \A i, j \in DOMAIN shown :
                         i < j => shown[i].created_at > shown[j].created_at]_vars

\* the newer of two messages was delivered first and stored first, and the
\* page shows it first as it would had it come second
C35_Witness ==
    /\ form.state = "results"
    /\ Len(events) = 2
    /\ events[1].created_at > events[2].created_at
    /\ Len(ui.container.events) = 2
    /\ ui.container.events[1].id = events[1].id

\* ---- C36 -----------------------------------------------------------------
\* C36: when two submissions overlap (the second is made while the fetch of
\* the first is running), after both have finished currentKindGroups is the
\* result of the second, the most recently submitted request, whichever
\* fetch finishes last.
C36_LatestSubmissionWins ==
    (form.state = "results" /\ second.submit = "results") =>
        currentKindGroups = analyzeEvents(ArrayOf(second.events)).kindGroups

\* ---- C37 -----------------------------------------------------------------
\* the sections of page u that are visible
Visible(u) ==
    {x \in {"status", "results", "error"} :
        \/ x = "status" /\ u.status = "block"
        \/ x = "results" /\ u.results = "block"
        \/ x = "error" /\ u.error = "block"}

\* C37: at most one of the status, results and error sections is visible at
\* any time, after any sequence of submissions, fetch completions and
\* failures; and, timers firing, every submission eventually ends, and ends
\* with the results section or the error section shown and the loading
\* section hidden.
C37_OneSectionNeverStuck ==
    /\ [](Cardinality(Visible(ui)) <= 1)
    /\ (form.state = "awaiting") ~> (form.state \in {"results", "error"})
    /\ (second.submit = "awaiting") ~> (second.submit \in {"results", "error"})
    /\ [][(\/ form.state # form'.state /\ form'.state \in {"results", "error"}
           \/ second.submit # second'.submit /\ second'.submit \in {"results", "error"})
          => (Visible(ui') = {"results"} \/ Visible(ui') = {"error"})]_vars

\* two overlapping submissions have both ended with their results, and the
\* results section alone is visible
C37_Witness ==
    /\ form.state = "results"
    /\ second.submit = "results"
    /\ Visible(ui) = {"results"}
====
